---- MODULE Spec2Model ----
(***************************************************************************)
(* Verification model of the gomoku self-improvement pipeline:            *)
(*   - the board kernel, threat detector, tactical solvers and the        *)
(*     top-level flow of findBestMoveNN            (src/src/ai.ts)        *)
(*   - the arena gate and its promotion            (src/src/rules_swap2.ts*)
(*     lines 158-267, the arena script)                                   *)
(*   - the cycle controller                        (src/src/start_pipeline.ts) *)
(*   - the self-play trainer, the model server and the status file,      *)
(*     the search tree and its caches, one game of a self-play worker    *)
(*   - the LRU order of the caches, the deep merge of the status file,   *)
(*     the loop control of the controller, the Swap2 negotiation, the    *)
(*     defensive solver under its budget, the early stop of the search   *)
(*   - the caches under two models, the think time of the server, the    *)
(*     model cache of a worker, the in-place writes to the caller's      *)
(*     board, the child widening of the search                           *)
(***************************************************************************)
EXTENDS Integers, Sequences, FiniteSets, TLC

(***************************************************************************)
(* Board kernel (ai.ts 10-66, 171-208, 282-393, 477-485)                   *)
(***************************************************************************)

\* board.length: the model plays on an N x N board (the program default is 15).
N == 7

Rows == 0 .. (N - 1)
Null == "null"
Players == {"black", "white"}
NoMove == <<-1, -1>>

getOpponent(player) == IF player = "black" THEN "white" ELSE "black"

emptyBoard == [r \in Rows |-> [c \in Rows |-> Null]]

\* board[r][c] = v
Put(board, m, v) == [board EXCEPT ![m[1]][m[2]] = v]

inside(r, c) == r >= 0 /\ c >= 0 /\ r < N /\ c < N

cellAt(board, r, c) == IF inside(r, c) THEN board[r][c] ELSE "OOB"

hasEmpty(board) == \E r \in Rows : \E c \in Rows : board[r][c] = Null

countStones(board) == Cardinality({m \in Rows \X Rows : board[m[1]][m[2]] # Null})

\* the inner loop of checkWin: contiguous stones of player from (r,c) in one direction, at most 4
runLength(board, player, r, c, dr, dc) ==
  Cardinality({i \in 1..4 : \A j \in 1..i : cellAt(board, r + dr * j, c + dc * j) = player})

WinDirections == { <<0, 1>>, <<1, 0>>, <<1, 1>>, <<-1, 1>> }

checkWin(board, player, move) ==
  /\ move[1] # -1
  /\ \E d \in WinDirections :
       1 + runLength(board, player, move[1], move[2], d[1], d[2])
         + runLength(board, player, move[1], move[2], -d[1], -d[2]) >= 5

SeqSet(seq) == {seq[i] : i \in DOMAIN seq}

\* the elements e of a set K of pairs <<key, e>> as a sequence in increasing
\* key order (the keys are distinct)
SeqOfKeyed(K) ==
  [p \in 1..Cardinality(K) |->
     (CHOOSE q \in K : Cardinality({t \in K : t[1] < q[1]}) = p - 1)[2]] \o <<>>

\* first-occurrence order of a JS Set filled from seq
Dedup(seq) ==
  SeqOfKeyed({<<i, seq[i]>> : i \in {i \in DOMAIN seq : \A j \in 1..(i - 1) : seq[j] # seq[i]}})

\* row-major scan position of a cell
scanIndex(r, c) == r * N + c

\* the stones within `radius` of the empty cell e
stonesNear(board, radius, e) ==
  {st \in {<<e[1] + i, e[2] + j>> : i \in (-radius)..radius, j \in (-radius)..radius} :
     inside(st[1], st[2]) /\ board[st[1]][st[2]] # Null}

\* getPossibleMoves scans the stones in row-major order and adds, for each,
\* the empty cells of its (i, j) neighbourhood not yet in the Set: a cell's
\* position in the result is given by the first stone that reaches it and by
\* its offset from that stone.
discoveryOrder(board, radius, e) ==
  LET near == stonesNear(board, radius, e)
      st == CHOOSE s \in near :
              \A t \in near : scanIndex(s[1], s[2]) <= scanIndex(t[1], t[2])
      w == 2 * radius + 1
  IN scanIndex(st[1], st[2]) * (w * w) + (e[1] - st[1] + radius) * w + (e[2] - st[2] + radius)

\* Fault variant of getPossibleMoves: the neighbourhood scan without its
\* `board[nr][nc] === null` test
getPossibleMovesNoNullTest(board, radius) ==
  LET mid == N \div 2
  IN IF countStones(board) = 0 THEN << <<mid, mid>> >>
     ELSE SeqOfKeyed({<<discoveryOrder(board, radius, e), e>> :
                        e \in {e \in Rows \X Rows : stonesNear(board, radius, e) # {}}})

getPossibleMoves(board, radius) ==
  LET mid == N \div 2
  IN IF countStones(board) = 0 THEN << <<mid, mid>> >>
     ELSE SeqOfKeyed({<<discoveryOrder(board, radius, e), e>> :
                        e \in {e \in Rows \X Rows :
                                 /\ board[e[1]][e[2]] = Null
                                 /\ stonesNear(board, radius, e) # {}}})

(***************************************************************************)
(* Forbidden (3-3 / 4-4) detection (ai.ts 292-393)                         *)
(***************************************************************************)

\* the segment cell i of the 6- or 5-cell window that starts s steps from (r,c)
segCell(board, r, c, dr, dc, s, i) == cellAt(board, r + (s + i) * dr, c + (s + i) * dc)

hasOpenThreeInDirection(board, player, r, c, dr, dc) ==
  \E s \in -5..0 :
    /\ -s >= 1 /\ -s <= 4
    /\ \A i \in 0..5 : segCell(board, r, c, dr, dc, s, i) # "OOB"
    /\ segCell(board, r, c, dr, dc, s, 0) = Null
    /\ segCell(board, r, c, dr, dc, s, 5) = Null
    /\ \A i \in 1..4 : segCell(board, r, c, dr, dc, s, i) \in {player, Null}
    /\ Cardinality({i \in 1..4 : segCell(board, r, c, dr, dc, s, i) = player}) = 3
    /\ Cardinality({i \in 1..4 : segCell(board, r, c, dr, dc, s, i) = Null}) = 1

hasFourInDirection(board, player, r, c, dr, dc) ==
  \E s \in -4..0 :
    /\ \A i \in 0..4 : segCell(board, r, c, dr, dc, s, i) # "OOB"
    /\ \A i \in 0..4 : segCell(board, r, c, dr, dc, s, i) \in {player, Null}
    /\ Cardinality({i \in 0..4 : segCell(board, r, c, dr, dc, s, i) = player}) = 4
    /\ Cardinality({i \in 0..4 : segCell(board, r, c, dr, dc, s, i) = Null}) = 1

LineDirs == << <<0, 1>>, <<1, 0>>, <<1, 1>>, <<1, -1>> >>

createsDoubleOpenThree(board, player, r, c) ==
  Cardinality({k \in 1..4 :
     hasOpenThreeInDirection(board, player, r, c, LineDirs[k][1], LineDirs[k][2])}) >= 2

createsDoubleFour(board, player, r, c) ==
  Cardinality({k \in 1..4 :
     hasFourInDirection(board, player, r, c, LineDirs[k][1], LineDirs[k][2])}) >= 2

isForbiddenMove(board, player, move) ==
  IF player # "black" THEN FALSE
  ELSE IF board[move[1]][move[2]] # Null THEN FALSE
  ELSE LET b1 == Put(board, move, player)
       IN IF checkWin(b1, player, move) THEN FALSE
          ELSE \/ createsDoubleOpenThree(b1, player, move[1], move[2])
               \/ createsDoubleFour(b1, player, move[1], move[2])

(***************************************************************************)
(* Threat detector (ai.ts 587-663, 1169-1184, 1313-1336)                   *)
(***************************************************************************)

\* the (rStart, cStart, direction) scan of findThreats, restricted to the
\* windows whose five cells are all on the board
WindowSeq ==
  LET all == [k \in 1..(N * N * 4) |->
                LET cellNo == (k - 1) \div 4
                    d == LineDirs[((k - 1) % 4) + 1]
                IN <<cellNo \div N, cellNo % N, d[1], d[2]>>]
  IN SelectSeq(all, LAMBDA w : inside(w[1] + 4 * w[3], w[2] + 4 * w[4]))

windowCell(w, i) == <<w[1] + i * w[3], w[2] + i * w[4]>>

\* playerCount === 4 && emptyCell (and, for 'open-four', both cells beyond the window empty)
windowThreat(board, player, w, threatType) ==
  /\ Cardinality({i \in 0..4 : board[windowCell(w, i)[1]][windowCell(w, i)[2]] = player}) = 4
  /\ Cardinality({i \in 0..4 : board[windowCell(w, i)[1]][windowCell(w, i)[2]] = Null}) = 1
  /\ \/ threatType = "four"
     \/ /\ threatType = "open-four"
        /\ cellAt(board, w[1] - w[3], w[2] - w[4]) = Null
        /\ cellAt(board, w[1] + 5 * w[3], w[2] + 5 * w[4]) = Null

windowEmpty(board, w) ==
  windowCell(w, CHOOSE i \in 0..4 : board[windowCell(w, i)[1]][windowCell(w, i)[2]] = Null)

findThreats(board, player, threatType) ==
  LET hits == SelectSeq(WindowSeq, LAMBDA w : windowThreat(board, player, w, threatType))
  IN [k \in 1..Len(hits) |-> windowEmpty(board, hits[k])] \o <<>>

listOpenThreeMakers(board, player, candidates) ==
  SelectSeq(candidates, LAMBDA m :
     /\ board[m[1]][m[2]] = Null
     /\ Len(findThreats(Put(board, m, player), player, "open-four")) > 0)

listLegalMoves(board) == getPossibleMoves(board, 1)

winningMovesFor(board, player) ==
  SelectSeq(listLegalMoves(board), LAMBDA m : checkWin(Put(board, m, player), player, m))

listWinningMoves(board, player) == winningMovesFor(board, player)

listThreatCandidates(board, player) ==
  LET all == Dedup(listWinningMoves(board, player)
                   \o findThreats(board, player, "open-four")
                   \o findThreats(board, player, "four")
                   \o listOpenThreeMakers(board, player, listLegalMoves(board)))
  IN SelectSeq(all, LAMBDA m : inside(m[1], m[2]) /\ board[m[1]][m[2]] = Null)


(***************************************************************************)
(* Tactical solvers (ai.ts 1186-1452)                                      *)
(*                                                                         *)
(* Every test `Date.now() > deadlineMs || shouldStop()` is one budget      *)
(* check.  Time and the node counter only grow, so once a check says stop  *)
(* every later one does too: `cut` is the number of checks that pass       *)
(* before the budget runs out (NoCut: it never runs out), and `n` counts   *)
(* the checks made so far.  A solver returns its result with the new n.    *)
(***************************************************************************)

\* the largest number of budget checks after which the model lets the budget run out
MaxCut == 3

NoCut == MaxCut + 1

budgetOver(n, cut) == n >= cut /\ cut # NoCut

\* ai.ts 1212, 1277, 1432: how many centre-sorted legal moves the fallbacks try
FirstMoveFallback == 32
DfsFallback == 24
DefenseFallback == 32

centreDistance(m) ==
  LET mid == N \div 2
      abs(x) == IF x < 0 THEN -x ELSE x
  IN abs(m[1] - mid) + abs(m[2] - mid)

\* legal.sort(by Manhattan distance to the centre), a stable sort
sortByCentre(legal) ==
  SeqOfKeyed({<<centreDistance(legal[i]) * (N * N + 1) + i, legal[i]>> : i \in DOMAIN legal})

firstK(seq, k) == IF Len(seq) <= k THEN seq ELSE SubSeq(seq, 1, k)

\* the value of a one-element set; TheOnly({e(x) : x \in {v}}) is e with x
\* standing for the value of v, computed once
TheOnly(S) == CHOOSE x \in S : TRUE

\* candidate moves of findForcedWinFirstMove / forcedWinDFS
forcedCandidates(board, player, fallback) ==
  TheOnly({ TheOnly({ IF Len(set) = 0 THEN firstK(sortByCentre(legal), fallback) ELSE set :
                      set \in {Dedup(findThreats(board, player, "open-four")
                                     \o listOpenThreeMakers(board, player, legal)
                                     \o winningMovesFor(board, player))} }) :
            legal \in {listLegalMoves(board)} })

RECURSIVE forcedWinDFS(_, _, _, _, _)
RECURSIVE forcedWinRange(_, _, _, _, _, _, _, _)

\* one pass of the candidate loop of forcedWinDFS (ai.ts 1287-1308) on the
\* candidate m; stop says that the loop is left
forcedWinStep(board, player, depth, m, n, cut) ==
  IF budgetOver(n, cut) THEN [stop |-> TRUE, ok |-> FALSE, n |-> n + 1]
  ELSE IF board[m[1]][m[2]] # Null THEN [stop |-> FALSE, ok |-> FALSE, n |-> n + 1]
  ELSE IF player = "black" /\ isForbiddenMove(board, player, m)
  THEN [stop |-> FALSE, ok |-> FALSE, n |-> n + 1]
  ELSE IF checkWin(Put(board, m, player), player, m)
  THEN [stop |-> TRUE, ok |-> TRUE, n |-> n + 1]
  ELSE TheOnly({
         IF Len(wm) >= 2 THEN [stop |-> TRUE, ok |-> TRUE, n |-> n + 1]
         ELSE IF Len(wm) = 1 /\ depth > 0
         THEN TheOnly({
                [stop |-> sub.ok, ok |-> sub.ok, n |-> sub.n] :
                sub \in {forcedWinDFS(Put(Put(board, m, player), wm[1], getOpponent(player)),
                                      player, depth - 1, n + 1, cut)} })
         ELSE [stop |-> FALSE, ok |-> FALSE, n |-> n + 1] :
         wm \in {winningMovesFor(Put(board, m, player), player)} })

\* the passes on the candidates lo..hi in their order, up to the one that
\* leaves the loop; the range is walked by halves
forcedWinRange(board, player, depth, cands, lo, hi, n, cut) ==
  IF lo > hi THEN [stop |-> FALSE, ok |-> FALSE, n |-> n]
  ELSE IF lo = hi THEN forcedWinStep(board, player, depth, cands[lo], n, cut)
  ELSE TheOnly({
         IF left.stop THEN left
         ELSE forcedWinRange(board, player, depth, cands, (lo + hi) \div 2 + 1, hi,
                             left.n, cut) :
         left \in {forcedWinRange(board, player, depth, cands, lo, (lo + hi) \div 2,
                                  n, cut)} })

\* the candidate loop of forcedWinDFS, from candidate i on
forcedWinLoop(board, player, depth, cands, i, n, cut) ==
  TheOnly({ [ok |-> r.ok, n |-> r.n] :
            r \in {forcedWinRange(board, player, depth, cands, i, Len(cands), n, cut)} })

forcedWinDFS(board, player, depth, n, cut) ==
  IF depth <= 0 THEN [ok |-> FALSE, n |-> n]
  ELSE IF budgetOver(n, cut) THEN [ok |-> FALSE, n |-> n + 1]
  ELSE forcedWinLoop(board, player, depth,
                     forcedCandidates(board, player, DfsFallback), 1, n + 1, cut)

\* one pass of the candidate loop of findForcedWinFirstMove (ai.ts 1221-1247)
\* on the candidate m; stop says that the loop is left
forcedFirstStep(board, player, maxDepth, m, n, cut) ==
  IF budgetOver(n, cut) THEN [stop |-> TRUE, found |-> FALSE, mv |-> NoMove, n |-> n + 1]
  ELSE IF board[m[1]][m[2]] # Null
  THEN [stop |-> FALSE, found |-> FALSE, mv |-> NoMove, n |-> n + 1]
  ELSE IF player = "black" /\ isForbiddenMove(board, player, m)
  THEN [stop |-> FALSE, found |-> FALSE, mv |-> NoMove, n |-> n + 1]
  ELSE IF checkWin(Put(board, m, player), player, m)
  THEN [stop |-> TRUE, found |-> TRUE, mv |-> m, n |-> n + 1]
  ELSE TheOnly({
         IF Len(wm) >= 2 THEN [stop |-> TRUE, found |-> TRUE, mv |-> m, n |-> n + 1]
         ELSE IF Len(wm) = 1 /\ maxDepth > 0
         THEN TheOnly({
                IF sub.ok THEN [stop |-> TRUE, found |-> TRUE, mv |-> m, n |-> sub.n]
                ELSE [stop |-> FALSE, found |-> FALSE, mv |-> NoMove, n |-> sub.n] :
                sub \in {forcedWinDFS(Put(Put(board, m, player), wm[1], getOpponent(player)),
                                      player, maxDepth - 1, n + 1, cut)} })
         ELSE [stop |-> FALSE, found |-> FALSE, mv |-> NoMove, n |-> n + 1] :
         wm \in {winningMovesFor(Put(board, m, player), player)} })

RECURSIVE forcedFirstRange(_, _, _, _, _, _, _, _)

\* the passes on the candidates lo..hi in their order, up to the one that
\* leaves the loop; the range is walked by halves
forcedFirstRange(board, player, maxDepth, cands, lo, hi, n, cut) ==
  IF lo > hi THEN [stop |-> FALSE, found |-> FALSE, mv |-> NoMove, n |-> n]
  ELSE IF lo = hi THEN forcedFirstStep(board, player, maxDepth, cands[lo], n, cut)
  ELSE TheOnly({
         IF left.stop THEN left
         ELSE forcedFirstRange(board, player, maxDepth, cands, (lo + hi) \div 2 + 1, hi,
                               left.n, cut) :
         left \in {forcedFirstRange(board, player, maxDepth, cands, lo, (lo + hi) \div 2,
                                    n, cut)} })

\* the candidate loop of findForcedWinFirstMove, from candidate i on
forcedFirstLoop(board, player, maxDepth, cands, i, n, cut) ==
  TheOnly({ [found |-> r.found, mv |-> r.mv, n |-> r.n] :
            r \in {forcedFirstRange(board, player, maxDepth, cands, i, Len(cands), n, cut)} })

findForcedWinFirstMove(board, player, maxDepth, n, cut) ==
  forcedFirstLoop(board, player, maxDepth,
                  forcedCandidates(board, player, FirstMoveFallback), 1, n, cut)

RECURSIVE vctDFS(_, _, _, _, _)
RECURSIVE vctLoop(_, _, _, _, _, _, _)

\* the candidate loop of vctDFS, from candidate i on
vctLoop(board, player, depth, cands, i, n, cut) ==
  IF i > Len(cands) THEN [ok |-> FALSE, n |-> n]
  ELSE IF budgetOver(n, cut) THEN [ok |-> FALSE, n |-> n + 1]
  ELSE LET m == cands[i]
           b1 == Put(board, m, player)
       IN IF board[m[1]][m[2]] # Null
          THEN vctLoop(board, player, depth, cands, i + 1, n + 1, cut)
          ELSE IF player = "black" /\ isForbiddenMove(board, player, m)
          THEN vctLoop(board, player, depth, cands, i + 1, n + 1, cut)
          ELSE IF checkWin(b1, player, m) THEN [ok |-> TRUE, n |-> n + 1]
          ELSE TheOnly({
                 IF Len(wins) >= 2 THEN [ok |-> TRUE, n |-> n + 1]
                 ELSE IF Len(wins) = 1 /\ depth > 0
                 THEN TheOnly({
                        IF sub.ok THEN sub
                        ELSE vctLoop(board, player, depth, cands, i + 1, sub.n, cut) :
                        sub \in {vctDFS(Put(b1, wins[1], getOpponent(player)),
                                        player, depth - 1, n + 1, cut)} })
                 ELSE vctLoop(board, player, depth, cands, i + 1, n + 1, cut) :
                 wins \in {listWinningMoves(b1, player)} })

vctDFS(board, player, depth, n, cut) ==
  IF depth <= 0 THEN [ok |-> FALSE, n |-> n]
  ELSE IF budgetOver(n, cut) THEN [ok |-> FALSE, n |-> n + 1]
  ELSE vctLoop(board, player, depth, listThreatCandidates(board, player), 1, n + 1, cut)

RECURSIVE vctFirstLoop(_, _, _, _, _, _, _)

\* the candidate loop of findVCTWinFirstMove, from candidate i on
vctFirstLoop(board, player, maxDepth, cands, i, n, cut) ==
  IF i > Len(cands) THEN [found |-> FALSE, mv |-> NoMove, n |-> n]
  ELSE IF budgetOver(n, cut) THEN [found |-> FALSE, mv |-> NoMove, n |-> n + 1]
  ELSE LET m == cands[i]
           b1 == Put(board, m, player)
       IN IF board[m[1]][m[2]] # Null
          THEN vctFirstLoop(board, player, maxDepth, cands, i + 1, n + 1, cut)
          ELSE IF player = "black" /\ isForbiddenMove(board, player, m)
          THEN vctFirstLoop(board, player, maxDepth, cands, i + 1, n + 1, cut)
          ELSE IF checkWin(b1, player, m) THEN [found |-> TRUE, mv |-> m, n |-> n + 1]
          ELSE TheOnly({
                 IF Len(wins) >= 2 THEN [found |-> TRUE, mv |-> m, n |-> n + 1]
                 ELSE IF maxDepth > 0 /\ Len(wins) = 1
                 THEN TheOnly({
                        IF sub.ok THEN [found |-> TRUE, mv |-> m, n |-> sub.n]
                        ELSE vctFirstLoop(board, player, maxDepth, cands, i + 1, sub.n, cut) :
                        sub \in {vctDFS(Put(b1, wins[1], getOpponent(player)),
                                        player, maxDepth - 1, n + 1, cut)} })
                 ELSE vctFirstLoop(board, player, maxDepth, cands, i + 1, n + 1, cut) :
                 wins \in {listWinningMoves(b1, player)} })

findVCTWinFirstMove(board, player, maxDepth, n, cut) ==
  vctFirstLoop(board, player, maxDepth, listThreatCandidates(board, player), 1, n, cut)

\* Math.max(2, maxDepth - 1)
defenseDepth(maxDepth) == IF maxDepth - 1 > 2 THEN maxDepth - 1 ELSE 2

\* candidate blocks of findDefenseMoveAgainstOpponentForced
defenseCandidates(board, player) ==
  TheOnly({ TheOnly({ IF Len(set) = 0 THEN firstK(sortByCentre(legal), DefenseFallback) ELSE set :
                      set \in {Dedup(findThreats(board, getOpponent(player), "open-four")
                                     \o listOpenThreeMakers(board, getOpponent(player), legal)
                                     \o winningMovesFor(board, getOpponent(player)))} }) :
            legal \in {listLegalMoves(board)} })

\* one pass of the candidate loop of findDefenseMoveAgainstOpponentForced
\* (ai.ts 1441-1449) on the candidate m; stop says that the loop is left
defenseStep(board, player, maxDepth, m, n, cut) ==
  IF budgetOver(n, cut) THEN [stop |-> TRUE, found |-> FALSE, mv |-> NoMove, n |-> n + 1]
  ELSE IF board[m[1]][m[2]] # Null
  THEN [stop |-> FALSE, found |-> FALSE, mv |-> NoMove, n |-> n + 1]
  ELSE IF player = "black" /\ isForbiddenMove(board, player, m)
  THEN [stop |-> FALSE, found |-> FALSE, mv |-> NoMove, n |-> n + 1]
  ELSE TheOnly({
         IF ~stillForced.found
         THEN [stop |-> TRUE, found |-> TRUE, mv |-> m, n |-> stillForced.n]
         ELSE [stop |-> FALSE, found |-> FALSE, mv |-> NoMove, n |-> stillForced.n] :
         stillForced \in {findForcedWinFirstMove(Put(board, m, player),
                             getOpponent(player), defenseDepth(maxDepth), n + 1, cut)} })

RECURSIVE defenseRange(_, _, _, _, _, _, _, _)

\* the passes on the candidates lo..hi in their order, up to the one that
\* leaves the loop; the range is walked by halves
defenseRange(board, player, maxDepth, cands, lo, hi, n, cut) ==
  IF lo > hi THEN [stop |-> FALSE, found |-> FALSE, mv |-> NoMove, n |-> n]
  ELSE IF lo = hi THEN defenseStep(board, player, maxDepth, cands[lo], n, cut)
  ELSE TheOnly({
         IF left.stop THEN left
         ELSE defenseRange(board, player, maxDepth, cands, (lo + hi) \div 2 + 1, hi,
                           left.n, cut) :
         left \in {defenseRange(board, player, maxDepth, cands, lo, (lo + hi) \div 2,
                                n, cut)} })

\* the candidate loop of findDefenseMoveAgainstOpponentForced, from candidate i on
defenseLoop(board, player, maxDepth, cands, i, n, cut) ==
  TheOnly({ [found |-> r.found, mv |-> r.mv, n |-> r.n] :
            r \in {defenseRange(board, player, maxDepth, cands, i, Len(cands), n, cut)} })

findDefenseMoveAgainstOpponentForced(board, player, maxDepth, n, cut) ==
  TheOnly({
    IF ~looming.found THEN [found |-> FALSE, mv |-> NoMove, n |-> looming.n]
    ELSE defenseLoop(board, player, maxDepth, defenseCandidates(board, player),
                     1, looming.n, cut) :
    looming \in {findForcedWinFirstMove(board, getOpponent(player),
                                        defenseDepth(maxDepth), n, cut)} })


(***************************************************************************)
(* State of the three programs                                             *)
(***************************************************************************)

VARIABLES
  \* findBestMoveNN (ai.ts 665-1166): its arguments, its position, its locals
  board, player, timeLimitMs, pc, via, bestMove,
  legalMoves, forbiddenSet, children, visits, simulationCount,
  \* the cells where the masked root policy is positive (ai.ts 772-876)
  rootMasked

aiVars == <<board, player, timeLimitMs, pc, via, bestMove,
            legalMoves, forbiddenSet, children, visits, simulationCount, rootMasked>>

VARIABLES
  \* the arena script (rules_swap2.ts 69-74, 158-262): its configuration, its
  \* position, its counters, the directories it works on and its exit code
  GAMES, WINRATE_THRESHOLD, EARLY_STOP, PROMOTE_ON_PASS,
  apc, played, candWins, prodWins, draws, stopReason,
  rmTries, prodDir, backupDir, arenaPromoted, exitCode, failedStep,
  \* arena_result.json, written by the arena script and read by the controller
  arenaResultFile

VARIABLES
  \* the cycle controller (start_pipeline.ts 145-317): its configuration, its
  \* locals, the promise it awaits, the children alive and the status file
  cycles, runDistill, runUpload, autoBook, importBook, gatingEnabled, hasSupabase,
  cycle, stage, settle, alive, hadError, promoted, status,
  \* history of the current cycle
  started, failedStages, lastFailed, errorWriteOk, arenaRunPromoted,
  \* whether every write of status.phase in the current cycle has gone through
  phaseWritesOk

arenaCfg == <<GAMES, WINRATE_THRESHOLD, EARLY_STOP, PROMOTE_ON_PASS>>

arenaVars == <<arenaCfg, apc, played, candWins, prodWins, draws, stopReason,
               rmTries, prodDir, backupDir, arenaPromoted, exitCode, failedStep>>

pipeCfg == <<cycles, runDistill, runUpload, autoBook, importBook, gatingEnabled, hasSupabase>>

pipeVars == <<pipeCfg, cycle, stage, settle, alive, hadError, promoted, status,
              started, failedStages, lastFailed, errorWriteOk, arenaRunPromoted,
              phaseWritesOk>>

VARIABLES
  \* the self-play orchestrator (unnamed/part_017 120-189) and its workers
  \* (game_worker.ts 409-443): the orchestrator's position, whether Date.now()
  \* has reached endAt, its locals, the flushes awaiting writeFile, the files
  \* written, each worker's state and game number, and the messages, the
  \* setImmediate callbacks and the 'start_new_game' messages under way
  spc, pastEnd, buffer, totalSampleCount, fileCounter, flushing, files,
  wstate, gameNo, toParent, immediates, toWorker,
  \* history: the samples pushed into the buffer, the samples of failed
  \* writes, the workers terminated in the middle of a game
  received, dropped, aborted

selfPlayVars == <<spc, pastEnd, buffer, totalSampleCount, fileCounter, flushing, files,
                  wstate, gameNo, toParent, immediates, toWorker,
                  received, dropped, aborted>>

VARIABLES
  \* the inference server (server.ts 157-213, 317-360): the global model and
  \* lastModelMtimeMs, the model file's mtime, the number of models loaded so
  \* far, how often dispose() was called on each, each ensureModel caller's
  \* position and the model it holds, and whether a search evaluated a
  \* disposed model
  model, lastModelMtimeMs, fileMtime, loaded, disposeCalls, task, usedDisposed

serverVars == <<model, lastModelMtimeMs, fileMtime, loaded, disposeCalls, task, usedDisposed>>

VARIABLES
  \* the status file (status.ts 5, 66-80) and the updateStatus calls under
  \* way: each call's position, its patch and the content it has read
  statusFile, call

statusVars == <<statusFile, call>>

VARIABLES
  \* the search loop of findBestMoveNN (ai.ts 753-1166) in one process: the
  \* evaluator's outputs, the call under way and its position, the clock read
  \* by Date.now() since the call, startTime, the tree, the leaves waiting for
  \* the batched prediction, the loop counter k (batchK), the leaf selections made, the
  \* two module-level caches, and what each call did and returned
  evaluator, kChild, callNo, mpc, now, startTime, tree, pending, batchK, selections,
  ttable, predCache, batchLog, lateBatch, results,
  \* history: for every key of the transposition table, the simulations that
  \* ended at a leaf with that key since the key was last stored by ttSet
  \* (the storing one included), and the sum of their values
  leafEvals

searchVars == <<evaluator, kChild, callNo, mpc, now, startTime, tree, pending, batchK, selections,
                ttable, predCache, batchLog, lateBatch, results, leafEvals>>

VARIABLES
  \* runSelfPlayGame (game_worker.ts 252-405): the board and the side to
  \* move, the loop counter, the steps recorded so far, the position of the
  \* worker, the winner found by checkWin, and the trainingSamples message
  gboard, toMove, moveCount, history, wpc, gameWinner, trainingSamples

workerVars == <<gboard, toMove, moveCount, history, wpc, gameWinner, trainingSamples>>

VARIABLES
  \* the transposition table and the prediction cache of ai.ts 490 and 548
  \* under their canonical keys, and the last use of a stored vector: the
  \* board it was looked up for and the entry that came back
  ttMap, predMap, lookup

cacheVars == <<ttMap, predMap, lookup>>

VARIABLES
  \* the keys of the Maps tt (ai.ts 490) and predCache (ai.ts 548) in
  \* insertion order, the same keys in the order of their last read or write
  \* (kept apart from the Maps), and the last eviction
  ttKeys, predKeys, ttUse, predUse, evicted

lruVars == <<ttKeys, predKeys, ttUse, predUse, evicted>>

VARIABLES
  \* the status file of status.ts 5 as a JSON document (or missing) and the
  \* last call of updateStatus: the document it read, its patch, what it left
  statusJson, lastUpdate

docVars == <<statusJson, lastUpdate>>

VARIABLES
  \* the loop control of the cycle controller (start_pipeline.ts 144-156,
  \* 305-311): the environment, the controller's position, its cycle counter,
  \* the cycles run and the cycles after which it slept
  FOREVER, PIPELINE_CYCLES, intervalMs, onErrorDelayMs, lpc, loopCycle, cyclesRun, sleptAfter

loopVars == <<FOREVER, PIPELINE_CYCLES, intervalMs, onErrorDelayMs, lpc, loopCycle,
              cyclesRun, sleptAfter>>

VARIABLES
  \* one call of performSwap2Negotiation (swap2_negotiation.ts 291-437): the
  \* board given and what came back, with the option that was taken
  swapInput, swapResult

swapVars == <<swapInput, swapResult>>

VARIABLES
  \* one call of findDefenseMoveAgainstOpponentForced (ai.ts 1401-1452): the
  \* position, the budget checks left when it is called, and what it returned
  dBoard, dPlayer, dCut, dResult

defenseVars == <<dBoard, dPlayer, dCut, dResult>>

VARIABLES
  \* the end of the search loop (ai.ts 888, 1130-1142): the visits of the
  \* root's children in the order of Object.values, and the loop's position
  kidVisits, epc

stopVars == <<kidVisits, epc>>

VARIABLES
  \* two models searching in one process (game_worker.ts 252-291,
  \* rules_swap2.ts 111-137): the module-level prediction cache and
  \* transposition table of ai.ts, the model of the running findBestMoveNN
  \* call, and the policy the search used last
  mixPred, mixTT, mixModel, mixUse

mixVars == <<mixPred, mixTT, mixModel, mixUse>>

VARIABLES
  \* POST /get-move (server.ts 268-314): the time fields of the request
  \* body, Date.now() at the request, and the think time computed for it (the
  \* empty set until computeThinkTime has returned)
  thinkBody, thinkNow, thinkTime

thinkVars == <<thinkBody, thinkNow, thinkTime>>

VARIABLES
  \* the model cache of a self-play worker (game_worker.ts 102-109, 168-184,
  \* 409-438): cfg's two model paths, modelCache, the number of models loaded
  \* so far, how often dispose() was called on each, the number of games
  \* started, and what the last call of ensureModels returned
  ensCfg, modelCache, ensLoaded, ensDisposeCalls, ensGames, ensReturned

ensVars == <<ensCfg, modelCache, ensLoaded, ensDisposeCalls, ensGames, ensReturned>>

VARIABLES
  \* a call of findBestMoveNN seen from its caller (ai.ts 665-1166): the
  \* caller's board array, which the call writes to in place, its content on
  \* entry, the other arguments, the position of the call and the return
  \* statement it has reached
  fBoard, fEntry, fPlayer, fTime, fpc, fVia

frameVars == <<fBoard, fEntry, fPlayer, fTime, fpc, fVia>>

baseVars == <<aiVars, arenaVars, pipeVars, arenaResultFile>>

moreVars == <<selfPlayVars, serverVars, statusVars, searchVars, workerVars, cacheVars, lruVars, docVars, loopVars, swapVars, defenseVars, stopVars, mixVars, thinkVars, ensVars, frameVars>>

vars == <<baseVars, moreVars>>

\* arena_result.json does not exist (or cannot be parsed)
NoResultFile == [present |-> FALSE, promoted |-> FALSE]

\* findBestMoveNN is not running
IdleAI ==
  /\ board = emptyBoard /\ player = "black" /\ timeLimitMs = 0
  /\ pc = "idle" /\ via = "none" /\ bestMove = NoMove
  /\ legalMoves = <<>> /\ forbiddenSet = {} /\ children = {}
  /\ visits = [m \in {} |-> 0] /\ simulationCount = 0 /\ rootMasked = {}

\* the arena script is not running
IdleArena ==
  /\ GAMES = 0 /\ WINRATE_THRESHOLD = <<3, 5>> /\ EARLY_STOP = TRUE /\ PROMOTE_ON_PASS = TRUE
  /\ apc = "idle" /\ played = 0 /\ candWins = 0 /\ prodWins = 0 /\ draws = 0
  /\ stopReason = "none" /\ rmTries = 0 /\ prodDir = "prior" /\ backupDir = "none"
  /\ arenaPromoted = FALSE /\ exitCode = 0 /\ failedStep = "none"

\* the cycle controller is not running
IdlePipeline ==
  /\ cycles = 0 /\ runDistill = TRUE /\ runUpload = TRUE /\ autoBook = TRUE
  /\ importBook = TRUE /\ gatingEnabled = TRUE /\ hasSupabase = TRUE
  /\ cycle = 1 /\ stage = "off" /\ settle = "none" /\ alive = {}
  /\ hadError = FALSE /\ promoted = FALSE /\ status = [phase |-> "none", error |-> "none"]
  /\ started = <<>> /\ failedStages = {} /\ lastFailed = "none"
  /\ errorWriteOk = FALSE /\ arenaRunPromoted = FALSE /\ phaseWritesOk = TRUE

NumWorkers == 2

Workers == 1..NumWorkers

\* the self-play orchestrator is not running
IdleSelfPlay ==
  /\ spc = "off" /\ pastEnd = FALSE /\ buffer = <<>> /\ totalSampleCount = 0
  /\ fileCounter = 0 /\ flushing = {} /\ files = {}
  /\ wstate = [w \in Workers |-> "none"] /\ gameNo = [w \in Workers |-> 0]
  /\ toParent = [w \in Workers |-> <<>>] /\ immediates = [w \in Workers |-> 0]
  /\ toWorker = [w \in Workers |-> 0]
  /\ received = {} /\ dropped = {} /\ aborted = {}

NumTasks == 3

Tasks == 1..NumTasks

MaxModels == 3

ModelIds == 1..MaxModels

\* the inference server is not running
IdleServer ==
  /\ model = 0 /\ lastModelMtimeMs = 0 /\ fileMtime = 0 /\ loaded = 0
  /\ disposeCalls = [m \in ModelIds |-> 0]
  /\ task = [t \in Tasks |-> [pc |-> "off", kind |-> "none", m |-> 0, evals |-> 0]]
  /\ usedDisposed = FALSE

NumCallers == 2

Callers == 1..NumCallers

\* the leaves of the status document that the self-play trainer and the
\* controller patch (status.ts 23-55)
Paths == {"phase", "error", "selfPlay.samplesTotal", "selfPlay.lastSave"}

\* the document without any field
emptyDoc == [k \in Paths |-> "none"]

noPatch == [k \in {} |-> "none"]

\* no updateStatus call is under way
IdleStatus ==
  /\ statusFile = [ok |-> TRUE, doc |-> emptyDoc]
  /\ call = [c \in Callers |-> [pc |-> "off", patch |-> noPatch, prev |-> emptyDoc]]

\* the calls of findBestMoveNN made in one process
NumCalls == 2

Calls == 1..NumCalls

\* the cells the searched position leaves to play; no line of five can be
\* made on them, so a line of play ends when they are used up
NumMoves == 3

Moves == 1..NumMoves

noNodes == [p \in {} |-> 0]

noEntries == [key \in {} |-> 0]

\* no search has been asked for
IdleSearch ==
  /\ evaluator = [w |-> [m \in Moves |-> 0], v |-> <<0, 0>>]
  /\ kChild = [fast |-> TRUE, base |-> 0, step |-> 0, max |-> 0]
  /\ leafEvals = noEntries
  /\ callNo = 0
  /\ mpc = "off"
  /\ now = 0
  /\ startTime = 0
  /\ tree = noNodes
  /\ pending = <<>>
  /\ batchK = 0
  /\ selections = 0
  /\ ttable = noEntries
  /\ predCache = noEntries
  /\ batchLog = [c \in Calls |-> <<>>]
  /\ lateBatch = FALSE
  /\ results = [c \in Calls |-> [bestMove |-> 0, policy |-> noEntries]]

\* no game is being played
IdleWorker ==
  /\ gboard = emptyBoard
  /\ toMove = "black"
  /\ moveCount = 0
  /\ history = <<>>
  /\ wpc = "off"
  /\ gameWinner = Null
  /\ trainingSamples = <<>>

noLookup == [board |-> emptyBoard, from |-> "none", vector |-> noEntries, of |-> emptyBoard]

\* both caches are empty
IdleCache ==
  /\ ttMap = noEntries
  /\ predMap = noEntries
  /\ lookup = noLookup

noEviction == [from |-> "none", key |-> 0, oldest |-> 0, sizeBefore |-> 0]

\* both Maps are empty
IdleLru ==
  /\ ttKeys = <<>> /\ predKeys = <<>> /\ ttUse = <<>> /\ predUse = <<>>
  /\ evicted = noEviction

\* JSON values: a number, null, undefined (a patch may hold it), or an object
\* with its fields
atom(v) == [kind |-> "atom", val |-> v, fields |-> <<>>]

nullValue == [kind |-> "null", val |-> 0, fields |-> <<>>]

undefinedValue == [kind |-> "undefined", val |-> 0, fields |-> <<>>]

object(f) == [kind |-> "object", val |-> 0, fields |-> f]

emptyObject == object(<<>>)

noFile == [exists |-> FALSE, doc |-> emptyObject]

noUpdate == [called |-> FALSE, wrote |-> FALSE, prev |-> emptyObject, patch |-> emptyObject,
             next |-> emptyObject]

\* no status file yet
IdleDoc ==
  /\ statusJson = noFile
  /\ lastUpdate = noUpdate

\* the controller is not running
IdleLoop ==
  /\ FOREVER = "unset" /\ PIPELINE_CYCLES = [given |-> FALSE, num |-> 0]
  /\ intervalMs = 0 /\ onErrorDelayMs = 0
  /\ lpc = "off" /\ loopCycle = 1 /\ cyclesRun = 0 /\ sleptAfter = {}

noSwapResult == [done |-> FALSE, option |-> 0, board |-> emptyBoard, toMove |-> "white",
                 swapColors |-> FALSE]

\* no negotiation has been asked for
IdleSwap ==
  /\ swapInput = emptyBoard
  /\ swapResult = noSwapResult

noDefenseResult == [done |-> FALSE, found |-> FALSE, mv |-> NoMove, stillForced |-> FALSE]

\* the defensive solver has not been called
IdleDefense ==
  /\ dBoard = emptyBoard /\ dPlayer = "black" /\ dCut = 0
  /\ dResult = noDefenseResult

\* no search loop is running
IdleStop ==
  /\ kidVisits = <<>>
  /\ epc = "off"

\* the value of mixUse before any policy was used
noUse == [by |-> "none", key |-> 0, from |-> "none", policy |-> [model |-> "none", position |-> 0]]

\* a map without entries
emptyCache == [p \in {} |-> [model |-> "none", position |-> 0]]

\* no game between two models is running
IdleMix ==
  /\ mixPred = emptyCache
  /\ mixTT = emptyCache
  /\ mixModel = "none"
  /\ mixUse = noUse

\* a request body without any of the time fields; a field is the set of its
\* values: empty when the client left it out
noBody == [forceThinkTimeMs |-> {}, timeLeftMs |-> {}, turnLimitMs |-> {},
           turnEndsAt |-> {}, moves |-> 0, own |-> 0]

\* no request is being served
IdleThink ==
  /\ thinkBody = noBody
  /\ thinkNow = 0
  /\ thinkTime = {}

\* ensureModels has not returned a pair of models (it was not called, or threw)
noModels == [black |-> 0, white |-> 0]

\* no worker's model cache is modelled
IdleEns ==
  /\ ensCfg = [prodModelPath |-> 0, opponentModelPath |-> 0]
  /\ modelCache = [black |-> 0, white |-> 0, pathBlack |-> 0, pathWhite |-> 0]
  /\ ensLoaded = 0
  /\ ensDisposeCalls = <<>>
  /\ ensGames = 0
  /\ ensReturned = noModels

\* no caller's board is followed
IdleFrame ==
  /\ fBoard = emptyBoard /\ fEntry = emptyBoard
  /\ fPlayer = "black" /\ fTime = 0
  /\ fpc = "off" /\ fVia = "none"

IdleMore == IdleSelfPlay /\ IdleServer /\ IdleStatus /\ IdleSearch /\ IdleWorker /\ IdleCache /\ IdleLru /\ IdleDoc /\ IdleLoop /\ IdleSwap /\ IdleDefense /\ IdleStop /\ IdleMix /\ IdleThink /\ IdleEns /\ IdleFrame

IdleBase == IdleAI /\ IdleArena /\ IdlePipeline /\ arenaResultFile = NoResultFile

\* what the actions of SelfPlay leave alone
notSelfPlay == <<baseVars, serverVars, statusVars, searchVars, workerVars, cacheVars, lruVars, docVars, loopVars, swapVars, defenseVars, stopVars, mixVars, thinkVars, ensVars, frameVars>>

IdleNotSelfPlay == IdleBase /\ IdleServer /\ IdleStatus /\ IdleSearch /\ IdleWorker /\ IdleCache /\ IdleLru /\ IdleDoc /\ IdleLoop /\ IdleSwap /\ IdleDefense /\ IdleStop /\ IdleMix /\ IdleThink /\ IdleEns /\ IdleFrame

\* what the actions of Server leave alone
notServer == <<baseVars, selfPlayVars, statusVars, searchVars, workerVars, cacheVars, lruVars, docVars, loopVars, swapVars, defenseVars, stopVars, mixVars, thinkVars, ensVars, frameVars>>

IdleNotServer == IdleBase /\ IdleSelfPlay /\ IdleStatus /\ IdleSearch /\ IdleWorker /\ IdleCache /\ IdleLru /\ IdleDoc /\ IdleLoop /\ IdleSwap /\ IdleDefense /\ IdleStop /\ IdleMix /\ IdleThink /\ IdleEns /\ IdleFrame

\* what the actions of Status leave alone
notStatus == <<baseVars, selfPlayVars, serverVars, searchVars, workerVars, cacheVars, lruVars, docVars, loopVars, swapVars, defenseVars, stopVars, mixVars, thinkVars, ensVars, frameVars>>

IdleNotStatus == IdleBase /\ IdleSelfPlay /\ IdleServer /\ IdleSearch /\ IdleWorker /\ IdleCache /\ IdleLru /\ IdleDoc /\ IdleLoop /\ IdleSwap /\ IdleDefense /\ IdleStop /\ IdleMix /\ IdleThink /\ IdleEns /\ IdleFrame

\* what the actions of Search leave alone
notSearch == <<baseVars, selfPlayVars, serverVars, statusVars, workerVars, cacheVars, lruVars, docVars, loopVars, swapVars, defenseVars, stopVars, mixVars, thinkVars, ensVars, frameVars>>

IdleNotSearch == IdleBase /\ IdleSelfPlay /\ IdleServer /\ IdleStatus /\ IdleWorker /\ IdleCache /\ IdleLru /\ IdleDoc /\ IdleLoop /\ IdleSwap /\ IdleDefense /\ IdleStop /\ IdleMix /\ IdleThink /\ IdleEns /\ IdleFrame

\* what the actions of Worker leave alone
notWorker == <<baseVars, selfPlayVars, serverVars, statusVars, searchVars, cacheVars, lruVars, docVars, loopVars, swapVars, defenseVars, stopVars, mixVars, thinkVars, ensVars, frameVars>>

IdleNotWorker == IdleBase /\ IdleSelfPlay /\ IdleServer /\ IdleStatus /\ IdleSearch /\ IdleCache /\ IdleLru /\ IdleDoc /\ IdleLoop /\ IdleSwap /\ IdleDefense /\ IdleStop /\ IdleMix /\ IdleThink /\ IdleEns /\ IdleFrame

\* what the actions of Cache leave alone
notCache == <<baseVars, selfPlayVars, serverVars, statusVars, searchVars, workerVars, lruVars, docVars, loopVars, swapVars, defenseVars, stopVars, mixVars, thinkVars, ensVars, frameVars>>

IdleNotCache == IdleBase /\ IdleSelfPlay /\ IdleServer /\ IdleStatus /\ IdleSearch /\ IdleWorker /\ IdleLru /\ IdleDoc /\ IdleLoop /\ IdleSwap /\ IdleDefense /\ IdleStop /\ IdleMix /\ IdleThink /\ IdleEns /\ IdleFrame

\* what the actions of Lru leave alone
notLru == <<baseVars, selfPlayVars, serverVars, statusVars, searchVars, workerVars, cacheVars, docVars, loopVars, swapVars, defenseVars, stopVars, mixVars, thinkVars, ensVars, frameVars>>

IdleNotLru == IdleBase /\ IdleSelfPlay /\ IdleServer /\ IdleStatus /\ IdleSearch /\ IdleWorker /\ IdleCache /\ IdleDoc /\ IdleLoop /\ IdleSwap /\ IdleDefense /\ IdleStop /\ IdleMix /\ IdleThink /\ IdleEns /\ IdleFrame

\* what the actions of Doc leave alone
notDoc == <<baseVars, selfPlayVars, serverVars, statusVars, searchVars, workerVars, cacheVars, lruVars, loopVars, swapVars, defenseVars, stopVars, mixVars, thinkVars, ensVars, frameVars>>

IdleNotDoc == IdleBase /\ IdleSelfPlay /\ IdleServer /\ IdleStatus /\ IdleSearch /\ IdleWorker /\ IdleCache /\ IdleLru /\ IdleLoop /\ IdleSwap /\ IdleDefense /\ IdleStop /\ IdleMix /\ IdleThink /\ IdleEns /\ IdleFrame

\* what the actions of Loop leave alone
notLoop == <<baseVars, selfPlayVars, serverVars, statusVars, searchVars, workerVars, cacheVars, lruVars, docVars, swapVars, defenseVars, stopVars, mixVars, thinkVars, ensVars, frameVars>>

IdleNotLoop == IdleBase /\ IdleSelfPlay /\ IdleServer /\ IdleStatus /\ IdleSearch /\ IdleWorker /\ IdleCache /\ IdleLru /\ IdleDoc /\ IdleSwap /\ IdleDefense /\ IdleStop /\ IdleMix /\ IdleThink /\ IdleEns /\ IdleFrame

\* what the actions of Swap leave alone
notSwap == <<baseVars, selfPlayVars, serverVars, statusVars, searchVars, workerVars, cacheVars, lruVars, docVars, loopVars, defenseVars, stopVars, mixVars, thinkVars, ensVars, frameVars>>

IdleNotSwap == IdleBase /\ IdleSelfPlay /\ IdleServer /\ IdleStatus /\ IdleSearch /\ IdleWorker /\ IdleCache /\ IdleLru /\ IdleDoc /\ IdleLoop /\ IdleDefense /\ IdleStop /\ IdleMix /\ IdleThink /\ IdleEns /\ IdleFrame

\* what the actions of Defense leave alone
notDefense == <<baseVars, selfPlayVars, serverVars, statusVars, searchVars, workerVars, cacheVars, lruVars, docVars, loopVars, swapVars, stopVars, mixVars, thinkVars, ensVars, frameVars>>

IdleNotDefense == IdleBase /\ IdleSelfPlay /\ IdleServer /\ IdleStatus /\ IdleSearch /\ IdleWorker /\ IdleCache /\ IdleLru /\ IdleDoc /\ IdleLoop /\ IdleSwap /\ IdleStop /\ IdleMix /\ IdleThink /\ IdleEns /\ IdleFrame

\* what the actions of Stop leave alone
notStop == <<baseVars, selfPlayVars, serverVars, statusVars, searchVars, workerVars, cacheVars, lruVars, docVars, loopVars, swapVars, defenseVars, mixVars, thinkVars, ensVars, frameVars>>

IdleNotStop == IdleBase /\ IdleSelfPlay /\ IdleServer /\ IdleStatus /\ IdleSearch /\ IdleWorker /\ IdleCache /\ IdleLru /\ IdleDoc /\ IdleLoop /\ IdleSwap /\ IdleDefense /\ IdleMix /\ IdleThink /\ IdleEns /\ IdleFrame

\* what the actions of Mix leave alone
notMix == <<baseVars, selfPlayVars, serverVars, statusVars, searchVars, workerVars, cacheVars, lruVars, docVars, loopVars, swapVars, defenseVars, stopVars, thinkVars, ensVars, frameVars>>

IdleNotMix == IdleBase /\ IdleSelfPlay /\ IdleServer /\ IdleStatus /\ IdleSearch /\ IdleWorker /\ IdleCache /\ IdleLru /\ IdleDoc /\ IdleLoop /\ IdleSwap /\ IdleDefense /\ IdleStop /\ IdleThink /\ IdleEns /\ IdleFrame

\* what the actions of Think leave alone
notThink == <<baseVars, selfPlayVars, serverVars, statusVars, searchVars, workerVars, cacheVars, lruVars, docVars, loopVars, swapVars, defenseVars, stopVars, mixVars, ensVars, frameVars>>

IdleNotThink == IdleBase /\ IdleSelfPlay /\ IdleServer /\ IdleStatus /\ IdleSearch /\ IdleWorker /\ IdleCache /\ IdleLru /\ IdleDoc /\ IdleLoop /\ IdleSwap /\ IdleDefense /\ IdleStop /\ IdleMix /\ IdleEns /\ IdleFrame

\* what the actions of Ens leave alone
notEns == <<baseVars, selfPlayVars, serverVars, statusVars, searchVars, workerVars, cacheVars, lruVars, docVars, loopVars, swapVars, defenseVars, stopVars, mixVars, thinkVars, frameVars>>

IdleNotEns == IdleBase /\ IdleSelfPlay /\ IdleServer /\ IdleStatus /\ IdleSearch /\ IdleWorker /\ IdleCache /\ IdleLru /\ IdleDoc /\ IdleLoop /\ IdleSwap /\ IdleDefense /\ IdleStop /\ IdleMix /\ IdleThink /\ IdleFrame

\* what the actions of Frame leave alone
notFrame == <<baseVars, selfPlayVars, serverVars, statusVars, searchVars, workerVars, cacheVars, lruVars, docVars, loopVars, swapVars, defenseVars, stopVars, mixVars, thinkVars, ensVars>>

IdleNotFrame == IdleBase /\ IdleSelfPlay /\ IdleServer /\ IdleStatus /\ IdleSearch /\ IdleWorker /\ IdleCache /\ IdleLru /\ IdleDoc /\ IdleLoop /\ IdleSwap /\ IdleDefense /\ IdleStop /\ IdleMix /\ IdleThink /\ IdleEns

(***************************************************************************)
(* findBestMoveNN: the tactical stage (ai.ts 681-751)                      *)
(***************************************************************************)

Cells == Rows \X Rows

Min(a, b) == IF a <= b THEN a ELSE b
Max(a, b) == IF a >= b THEN a ELSE b

\* getNumber('VCT_MAX_DEPTH', 4)
VCT_MAX_DEPTH == 4
\* the maxDepth arguments of the calls at ai.ts 697 and 704
FORCED_MAX_DEPTH == 3
DEFENSE_MAX_DEPTH == 3

\* SPEED_PRESET is left at 'balanced'
isFast(t) == t <= 900

VCT_ADAPT(t) ==
  IF isFast(t) THEN Min(2, VCT_MAX_DEPTH)
  ELSE IF t <= 1200 THEN Min(Max(2, VCT_MAX_DEPTH - 1), VCT_MAX_DEPTH)
  ELSE VCT_MAX_DEPTH

rootRadius(b) == IF countStones(b) <= Max(6, N \div 3) THEN 2 ELSE 1

\* the forbiddenSet of ai.ts 719-724
rootForbidden(b, who, legal) ==
  IF who = "black" THEN {m \in SeqSet(legal) : isForbiddenMove(b, who, m)} ELSE {}

firstOf(seq) == IF Len(seq) = 0 THEN NoMove ELSE seq[1]

\* Fault variant of immediateWin: the trial stone has the opponent's colour
immediateWinOtherColour(b, who, legal) ==
  firstOf(SelectSeq(legal, LAMBDA m :
     b[m[1]][m[2]] = Null /\ checkWin(Put(b, m, getOpponent(who)), getOpponent(who), m)))

\* ai.ts 728-736: the first legal move that completes a five for who
immediateWin(b, who, legal) ==
  firstOf(SelectSeq(legal, LAMBDA m :
     b[m[1]][m[2]] = Null /\ checkWin(Put(b, m, who), who, m)))

\* ai.ts 739-751: the first legal move that takes a five away from the
\* opponent, forbidden cells skipped for black
immediateBlock(b, who, legal) ==
  firstOf(SelectSeq(legal, LAMBDA m :
     /\ b[m[1]][m[2]] = Null
     /\ checkWin(Put(b, m, getOpponent(who)), getOpponent(who), m)
     /\ ~(who = "black" /\ isForbiddenMove(b, who, m))))

\* ai.ts 681-751 for one budget: which return statement is taken, and what it returns.
\* solverSoftDeadline and MAX_SOLVER_NODES together are the budget `cut`; the
\* three solvers share it (one deadline, one solverNodes counter).
tacticalStage(b, who, t, cut) ==
  TheOnly({
    IF vct.found THEN [via |-> "vct", mv |-> vct.mv, legal |-> <<>>]
    ELSE TheOnly({
      IF forced.found THEN [via |-> "forced", mv |-> forced.mv, legal |-> <<>>]
      ELSE TheOnly({
        IF defense.found THEN [via |-> "defense", mv |-> defense.mv, legal |-> <<>>]
        ELSE TheOnly({
          TheOnly({
            IF win # NoMove THEN [via |-> "win", mv |-> win, legal |-> <<>>]
            ELSE TheOnly({
              IF block # NoMove THEN [via |-> "block", mv |-> block, legal |-> <<>>]
              ELSE [via |-> "none", mv |-> NoMove, legal |-> legal] :
              block \in {immediateBlock(b, who, legal)} }) :
            win \in {immediateWin(b, who, legal)} }) :
          legal \in {getPossibleMoves(b, rootRadius(b))} }) :
        defense \in {findDefenseMoveAgainstOpponentForced(
                       b, who, DEFENSE_MAX_DEPTH, forced.n, cut)} }) :
      forced \in {findForcedWinFirstMove(b, who, FORCED_MAX_DEPTH, vct.n, cut)} }) :
    vct \in {findVCTWinFirstMove(b, who, VCT_ADAPT(t), 0, cut)} })

(***************************************************************************)
(* findBestMoveNN: root priors, search and final choice (ai.ts 753-1165)   *)
(*                                                                         *)
(* A prior is kept as the set of cells where it is positive: every step of *)
(* ai.ts 772-875 is followed by what it does to that set (the boosts of    *)
(* 823-867 multiply by positive factors and leave it unchanged).  The      *)
(* network, the transposition table and the Dirichlet sample are inputs.   *)
(***************************************************************************)

\* Number(process.env.FORBIDDEN_PENALTY || 0)
FORBIDDEN_PENALTY == 0
\* getNumber('K_ROOT_CAP', 256)
K_ROOT_CAP == 256
\* Number(process.env.TT_BOOTSTRAP_VISITS || 3)
TT_BOOTSTRAP_VISITS == 3

\* ai.ts 810
addNoise(b) == countStones(b) <= Max(8, N \div 2)

\* ai.ts 772-875; nn: where rootPolicy is positive; hasTT, tt: whether ttGet
\* returns an entry with priors, and where they are positive; noise: where the
\* Dirichlet sample is positive
rootPrior(b, who, legal, forbidden, nn, hasTT, tt, noise) ==
  LET legalSet == SeqSet(legal)
      m0 == legalSet \cap nn
      m1 == IF who = "black" /\ forbidden # {} /\ FORBIDDEN_PENALTY < 1 /\ FORBIDDEN_PENALTY = 0
            THEN m0 \ forbidden ELSE m0
      blend == legalSet \cap tt
      m2 == IF hasTT /\ m1 # {} /\ blend # {} THEN m1 \cup blend ELSE m1
      m3 == IF m2 = {} THEN legalSet ELSE m2
      m4 == IF addNoise(b) THEN m3 \cup (legalSet \cap noise) ELSE m3
  IN IF m4 = {} THEN legalSet ELSE m4

\* MCTSNodeNN.expand at the root: the possible moves with a positive prior.
\* topK = K_ROOT never prunes: the candidates are among the legal moves.
expand(b, masked, topK) ==
  LET cands == {m \in SeqSet(getPossibleMoves(b, 1)) : m \in masked}
  IN IF topK # 0 /\ Cardinality(cands) > topK THEN {} ELSE cands

\* ai.ts 1145-1148
fallbackMove(b) == firstOf(getPossibleMoves(b, 1))

\* ai.ts 1150-1157: Object.values iterates the children by ascending index,
\* and only a strictly larger visit count replaces the best
bestChild(kids, v) ==
  CHOOSE m \in kids :
    \A o \in kids :
      \/ v[o] < v[m]
      \/ v[o] = v[m] /\ scanIndex(m[1], m[2]) <= scanIndex(o[1], o[2])

\* Inputs of the root stage
PolicySupports == {Cells, {}}
NoiseSupports(legal) == IF Len(legal) = 0 THEN {{}} ELSE {SeqSet(legal), {legal[1]}}

\* the most simulations the model lets the search loop run
MaxSims == 2

(***************************************************************************)
(* Positions the engine is asked about                                     *)
(***************************************************************************)

boardOf(blacks, whites) ==
  [r \in Rows |-> [c \in Rows |->
     IF <<r, c>> \in blacks THEN "black" ELSE IF <<r, c>> \in whites THEN "white" ELSE Null]]

\* a board without an empty cell and without five in a row
fullBoard ==
  [r \in Rows |-> [c \in Rows |-> IF (c + 2 * r) % 4 < 2 THEN "black" ELSE "white"]]

stonesOf(b, who) == Cardinality({m \in Cells : b[m[1]][m[2]] = who})

\* black moves first and the sides alternate (playSingleGame)
sideToMove(b) == IF stonesOf(b, "black") <= stonesOf(b, "white") THEN "black" ELSE "white"

SeedBoards ==
  { emptyBoard,
    \* one stone each
    boardOf({<<3, 3>>}, {<<2, 2>>}),
    \* black has an open four
    boardOf({<<3, 1>>, <<3, 2>>, <<3, 3>>, <<3, 4>>}, {<<2, 1>>, <<4, 2>>, <<2, 4>>, <<4, 4>>}),
    \* both sides have a four, white to move
    boardOf({<<3, 1>>, <<3, 2>>, <<3, 3>>, <<3, 4>>, <<0, 6>>},
            {<<5, 1>>, <<5, 2>>, <<5, 3>>, <<5, 4>>}),
    \* black has a closed four, white to move
    boardOf({<<3, 0>>, <<3, 1>>, <<3, 2>>, <<3, 3>>, <<5, 5>>},
            {<<2, 1>>, <<4, 2>>, <<2, 4>>, <<4, 4>>}),
    \* black has an open three, white a four, black to move
    boardOf({<<3, 2>>, <<3, 3>>, <<3, 4>>, <<6, 6>>}, {<<0, 0>>, <<0, 1>>, <<0, 2>>, <<0, 3>>}),
    \* the centre is a 3-3 for black
    boardOf({<<2, 3>>, <<4, 3>>, <<3, 2>>, <<3, 4>>}, {<<2, 2>>, <<4, 4>>, <<2, 4>>, <<4, 2>>}),
    \* white's five-completing cell is a 3-3 for black
    boardOf({<<2, 3>>, <<4, 3>>, <<3, 2>>, <<3, 4>>}, {<<1, 1>>, <<2, 2>>, <<4, 4>>, <<5, 5>>}),
    \* white can make a double four at (3,3)
    boardOf({<<1, 1>>, <<5, 1>>, <<5, 5>>, <<1, 5>>, <<6, 3>>, <<4, 5>>, <<6, 0>>},
            {<<3, 0>>, <<3, 1>>, <<3, 2>>, <<0, 3>>, <<1, 3>>, <<2, 3>>}),
    fullBoard,
    \* one empty cell left
    Put(fullBoard, <<3, 3>>, Null) }

TimeLimits == {800, 3000}

(***************************************************************************)
(* findBestMoveNN as a state machine                                       *)
(***************************************************************************)

noVisits == [m \in {} |-> 0]

InitAI ==
  /\ board \in SeedBoards
  /\ player = sideToMove(board)
  /\ timeLimitMs \in TimeLimits
  /\ pc = "start"
  /\ via = "none"
  /\ bestMove = NoMove
  /\ legalMoves = <<>>
  /\ forbiddenSet = {}
  /\ children = {}
  /\ visits = noVisits
  /\ simulationCount = 0
  /\ rootMasked = {}
  /\ IdleArena /\ IdlePipeline /\ arenaResultFile = NoResultFile /\ IdleMore

\* ai.ts 681-751: the solvers under some budget, then the one-move win and block
Tactical ==
  /\ pc = "start"
  /\ \E cut \in 0..NoCut :
       \E r \in {tacticalStage(board, player, timeLimitMs, cut)} :
          /\ via' = r.via
          /\ bestMove' = r.mv
          /\ pc' = IF r.via = "none" THEN "root" ELSE "done"
          /\ legalMoves' = r.legal
          /\ forbiddenSet' = IF r.via = "none" THEN rootForbidden(board, player, r.legal) ELSE {}
  /\ UNCHANGED <<board, player, timeLimitMs, children, visits, simulationCount, rootMasked>>
  /\ UNCHANGED <<arenaVars, pipeVars, arenaResultFile, moreVars>>

\* ai.ts 753-880: root prediction, priors, expand, bootstrapChildrenFromTT
RootPriors ==
  /\ pc = "root"
  /\ \E nn \in PolicySupports, hasTT \in BOOLEAN, noise \in NoiseSupports(legalMoves) :
       \E kids \in {expand(board,
                           rootPrior(board, player, legalMoves, forbiddenSet,
                                     nn, hasTT, Cells, noise),
                           Min(K_ROOT_CAP, Len(legalMoves)))} :
          /\ rootMasked' = rootPrior(board, player, legalMoves, forbiddenSet,
                                     nn, hasTT, Cells, noise)
          /\ children' = kids
          /\ \E boot \in kids \cup {NoMove}, vInit \in {1, TT_BOOTSTRAP_VISITS} :
               visits' = [m \in kids |-> IF m = boot THEN vInit ELSE 0]
  /\ pc' = "search"
  /\ UNCHANGED <<board, player, timeLimitMs, via, bestMove, legalMoves, forbiddenSet,
                 simulationCount>>
  /\ UNCHANGED <<arenaVars, pipeVars, arenaResultFile, moreVars>>

\* ai.ts 888-1143: one simulation; it adds a visit to the root child it descends through
Simulate ==
  /\ pc = "search"
  /\ simulationCount < MaxSims
  /\ simulationCount' = simulationCount + 1
  /\ IF children = {} THEN visits' = visits
     ELSE \E m \in children : visits' = [visits EXCEPT ![m] = @ + 1]
  /\ UNCHANGED <<board, player, timeLimitMs, pc, via, bestMove, legalMoves, forbiddenSet,
                 children, rootMasked>>
  /\ UNCHANGED <<arenaVars, pipeVars, arenaResultFile, moreVars>>

\* ai.ts 1145-1148: the time is up and the root has no child
ReturnFallback ==
  /\ pc = "search"
  /\ children = {}
  /\ bestMove' = fallbackMove(board)
  /\ via' = "fallback"
  /\ pc' = "done"
  /\ legalMoves' = <<>> /\ forbiddenSet' = {} /\ children' = {} /\ visits' = noVisits
  /\ simulationCount' = 0 /\ rootMasked' = {}
  /\ UNCHANGED <<board, player, timeLimitMs>>
  /\ UNCHANGED <<arenaVars, pipeVars, arenaResultFile, moreVars>>

\* ai.ts 1150-1165: the time is up; the most visited child is returned
ReturnBest ==
  /\ pc = "search"
  /\ children # {}
  /\ bestMove' = bestChild(children, visits)
  /\ via' = "mcts"
  /\ pc' = "done"
  /\ legalMoves' = <<>> /\ forbiddenSet' = {} /\ children' = {} /\ visits' = noVisits
  /\ simulationCount' = 0 /\ rootMasked' = {}
  /\ UNCHANGED <<board, player, timeLimitMs>>
  /\ UNCHANGED <<arenaVars, pipeVars, arenaResultFile, moreVars>>

NextAI == Tactical \/ RootPriors \/ Simulate \/ ReturnFallback \/ ReturnBest

SpecAI == InitAI /\ [][NextAI]_vars

(***************************************************************************)
(* Properties of findBestMoveNN                                            *)
(***************************************************************************)

\* the empty cells where a stone of who completes five in a row
fiveCells(b, who) ==
  {m \in Cells : b[m[1]][m[2]] = Null /\ checkWin(Put(b, m, who), who, m)}

\* C1: when the side to move has a cell that completes a five, the move
\* returned completes a five for it, whatever the time limit and wherever the
\* solver budget ran out.
C1_FiveIsTaken ==
  (pc = "done" /\ fiveCells(board, player) # {}) => bestMove \in fiveCells(board, player)

\* the solvers ran out of budget and the one-move win of ai.ts 728-736 answered
C1_Witness == pc = "done" /\ via = "win" /\ bestMove \in fiveCells(board, player)

\* C2: when the side to move has no five-completing cell and the opponent
\* has one, the move returned is one of the opponent's five-completing cells,
\* and for black a non-forbidden one when there is one.
C2_BlockIsPlayed ==
  (pc = "done" /\ fiveCells(board, player) = {}
               /\ fiveCells(board, getOpponent(player)) # {})
  => /\ bestMove \in fiveCells(board, getOpponent(player))
     /\ (player = "black"
           /\ \E m \in fiveCells(board, getOpponent(player)) : ~isForbiddenMove(board, player, m))
        => ~isForbiddenMove(board, player, bestMove)

\* the moves who may play on b
playable(b, who) ==
  {m \in Cells : b[m[1]][m[2]] = Null /\ ~isForbiddenMove(b, who, m)}

RECURSIVE forcesFive(_, _, _, _)

\* who plays m on b and then completes a five within `moves` moves of its
\* own (m included) whatever the opponent replies
forcesFive(b, who, m, moves) ==
  LET b1 == Put(b, m, who)
      opp == getOpponent(who)
  IN \/ checkWin(b1, who, m)
     \/ /\ moves > 1
        /\ fiveCells(b1, opp) = {}
        /\ \A o \in playable(b1, opp) :
             \/ fiveCells(Put(b1, o, opp), who) # {}
             \/ /\ moves > 2
                /\ \E m2 \in playable(Put(b1, o, opp), who) :
                     forcesFive(Put(b1, o, opp), who, m2, moves - 1)

\* C3: a move returned by findVCTWinFirstMove or findForcedWinFirstMove starts
\* a line in which the searching player completes a five within the search
\* depth against every sequence of opponent replies.
C3_SolverMoveForcesFive ==
  /\ (pc = "done" /\ via = "vct")
       => forcesFive(board, player, bestMove, VCT_ADAPT(timeLimitMs) + 1)
  /\ (pc = "done" /\ via = "forced")
       => forcesFive(board, player, bestMove, FORCED_MAX_DEPTH + 1)

\* C4: the sentinel (-1,-1) is returned exactly when the board has no empty
\* cell; otherwise the move returned is a cell of the board that is empty.
C4_LegalOrSentinel ==
  pc = "done" =>
    IF hasEmpty(board)
    THEN inside(bestMove[1], bestMove[2]) /\ board[bestMove[1]][bestMove[2]] = Null
    ELSE bestMove = NoMove

\* the search of a full board ended in the fallback of ai.ts 1145-1148
C4_Witness == pc = "done" /\ via = "fallback" /\ ~hasEmpty(board) /\ bestMove = NoMove

\* C5: with FORBIDDEN_PENALTY = 0, when black is to move and some candidate
\* cell is not forbidden, the move returned is not a forbidden cell.
C5_NoForbiddenMove ==
  (pc = "done" /\ player = "black" /\ FORBIDDEN_PENALTY = 0
     /\ \E m \in SeqSet(getPossibleMoves(board, rootRadius(board))) :
          ~isForbiddenMove(board, player, m))
  => ~isForbiddenMove(board, player, bestMove)

(***************************************************************************)
(* The arena script (rules_swap2.ts 158-267)                               *)
(***************************************************************************)

MaxGames == 5

\* WINRATE_THRESHOLD is kept as a fraction <<numerator, denominator>>
Thresholds == {<<0, 1>>, <<1, 2>>, <<3, 5>>, <<1, 1>>}

\* wins / games >= thr, as the script compares it
atLeastThreshold(wins, games, thr) == wins * thr[2] >= thr[1] * games

\* a variant of the early-stop test that divides by the games played so far
earlyStopOverPlayed(cw, pl, games, thr) ==
  IF atLeastThreshold(cw, pl, thr) THEN "success"
  ELSE IF ~atLeastThreshold(cw + (games - pl), games, thr) THEN "failure"
  ELSE "none"

\* rules_swap2.ts 184-198: minWinrate >= threshold breaks, else maxWinrate < threshold breaks
earlyStop(cw, pl, games, thr) ==
  IF atLeastThreshold(cw, games, thr) THEN "success"
  ELSE IF ~atLeastThreshold(cw + (games - pl), games, thr) THEN "failure"
  ELSE "none"

\* a variant of the final comparison that asks for a winrate above the threshold
winrateAbove(cw, total, thr) ==
  IF total > 0 THEN cw * thr[2] > thr[1] * total ELSE thr[1] < 0

\* rules_swap2.ts 201-202: total > 0 ? candWins / total : 0, compared with the threshold
winrateAtLeast(cw, total, thr) ==
  IF total > 0 THEN atLeastThreshold(cw, total, thr) ELSE thr[1] <= 0

\* rules_swap2.ts 228
maxTries == 10

\* rules_swap2.ts 264-267: main() rejected; nothing more is written
Abort(step) ==
  /\ apc' = "exit" /\ exitCode' = 1 /\ failedStep' = step

InitArena ==
  /\ GAMES \in 0..MaxGames
  /\ WINRATE_THRESHOLD \in Thresholds
  /\ EARLY_STOP \in BOOLEAN
  /\ PROMOTE_ON_PASS \in BOOLEAN
  /\ apc = "load" /\ played = 0 /\ candWins = 0 /\ prodWins = 0 /\ draws = 0
  /\ stopReason = "none" /\ rmTries = 0 /\ prodDir = "prior" /\ backupDir = "none"
  /\ arenaPromoted = FALSE /\ exitCode = 0 /\ failedStep = "none"
  /\ arenaResultFile \in {NoResultFile, [present |-> TRUE, promoted |-> TRUE]}
  /\ IdleAI /\ IdlePipeline /\ IdleMore

\* rules_swap2.ts 160-164: both directories exist and both models load, or main throws
LoadModels ==
  /\ apc = "load"
  /\ \E ok \in BOOLEAN :
       IF ok THEN /\ apc' = IF GAMES > 0 THEN "loop" ELSE "decide"
                  /\ UNCHANGED <<exitCode, failedStep>>
       ELSE Abort("load")
  /\ UNCHANGED <<arenaCfg, played, candWins, prodWins, draws, stopReason, rmTries,
                 prodDir, backupDir, arenaPromoted, arenaResultFile>>
  /\ UNCHANGED <<aiVars, pipeVars, moreVars>>

\* rules_swap2.ts 167-198: one iteration of the game loop
PlayGame ==
  /\ apc = "loop"
  /\ played < GAMES
  /\ \E res \in {"draw", "black", "white"} :
       LET swap == played % 2 = 1
           candWon == (res = "black" /\ ~swap) \/ (res = "white" /\ swap)
           cw == IF candWon THEN candWins + 1 ELSE candWins
           verdict == IF EARLY_STOP THEN earlyStop(cw, played + 1, GAMES, WINRATE_THRESHOLD)
                      ELSE "none"
       IN /\ draws' = IF res = "draw" THEN draws + 1 ELSE draws
          /\ candWins' = cw
          /\ prodWins' = IF res # "draw" /\ ~candWon THEN prodWins + 1 ELSE prodWins
          /\ played' = played + 1
          /\ stopReason' = verdict
          /\ apc' = IF verdict # "none" \/ played + 1 >= GAMES THEN "decide" ELSE "loop"
  /\ UNCHANGED <<arenaCfg, rmTries, prodDir, backupDir, arenaPromoted, exitCode,
                 failedStep, arenaResultFile>>
  /\ UNCHANGED <<aiVars, pipeVars, moreVars>>

\* rules_swap2.ts 170: playSingleGame rejects, main rejects
GameThrows ==
  /\ apc = "loop"
  /\ played < GAMES
  /\ Abort("game")
  /\ UNCHANGED <<arenaCfg, played, candWins, prodWins, draws, stopReason, rmTries,
                 prodDir, backupDir, arenaPromoted, arenaResultFile>>
  /\ UNCHANGED <<aiVars, pipeVars, moreVars>>

\* rules_swap2.ts 201-219: the winrate over the games played decides on promotion
Decide ==
  /\ apc = "decide"
  /\ apc' = IF /\ winrateAtLeast(candWins, candWins + prodWins + draws, WINRATE_THRESHOLD)
               /\ PROMOTE_ON_PASS
            THEN "backup" ELSE "result"
  /\ UNCHANGED <<arenaCfg, played, candWins, prodWins, draws, stopReason, rmTries,
                 prodDir, backupDir, arenaPromoted, exitCode, failedStep, arenaResultFile>>
  /\ UNCHANGED <<aiVars, pipeVars, moreVars>>

\* rules_swap2.ts 224-227: ensureDir(PAST_MODELS_DIR) and copy(PROD_DIR, backup)
BackupProd ==
  /\ apc = "backup"
  /\ \E ok \in BOOLEAN :
       IF ok THEN /\ backupDir' = "complete" /\ apc' = "rm"
                  /\ UNCHANGED <<exitCode, failedStep>>
       ELSE /\ backupDir' \in {"none", "partial"}
            /\ Abort("backup")
  /\ UNCHANGED <<arenaCfg, played, candWins, prodWins, draws, stopReason, rmTries,
                 prodDir, arenaPromoted, arenaResultFile>>
  /\ UNCHANGED <<aiVars, pipeVars, moreVars>>

\* rules_swap2.ts 230-240: one pass of the retry loop around rm(PROD_DIR, recursive);
\* a recursive removal that fails may already have removed some entries
RemoveProd ==
  /\ apc = "rm"
  /\ rmTries < maxTries
  /\ \E outcome \in {"ok", "EBUSY", "other"} :
       CASE outcome = "ok" ->
              /\ prodDir' = "missing" /\ apc' = "copy" /\ rmTries' = rmTries
              /\ UNCHANGED <<exitCode, failedStep>>
         [] outcome = "EBUSY" ->
              /\ prodDir' \in {prodDir, "partial"}
              /\ rmTries' = rmTries + 1
              /\ IF rmTries + 1 >= maxTries THEN Abort("rm")
                 ELSE apc' = "rm" /\ UNCHANGED <<exitCode, failedStep>>
         [] outcome = "other" ->
              /\ prodDir' \in {prodDir, "partial"}
              /\ rmTries' = rmTries
              /\ Abort("rm")
  /\ UNCHANGED <<arenaCfg, played, candWins, prodWins, draws, stopReason,
                 backupDir, arenaPromoted, arenaResultFile>>
  /\ UNCHANGED <<aiVars, pipeVars, moreVars>>

\* rules_swap2.ts 241-243: copy(CANDIDATE_DIR, PROD_DIR), then promoted = true
CopyCandidate ==
  /\ apc = "copy"
  /\ \E ok \in BOOLEAN :
       IF ok THEN /\ prodDir' = "candidate" /\ arenaPromoted' = TRUE /\ apc' = "result"
                  /\ UNCHANGED <<exitCode, failedStep>>
       ELSE /\ prodDir' \in {"missing", "partial_candidate"}
            /\ arenaPromoted' = arenaPromoted
            /\ Abort("copy")
  /\ UNCHANGED <<arenaCfg, played, candWins, prodWins, draws, stopReason, rmTries,
                 backupDir, arenaResultFile>>
  /\ UNCHANGED <<aiVars, pipeVars, moreVars>>

\* rules_swap2.ts 248-261: the result file is written; a failed write is only
\* warned about (the file keeps its old content or is left unreadable), and main returns
WriteResult ==
  /\ apc = "result"
  /\ \E ok \in BOOLEAN :
       IF ok THEN arenaResultFile' = [present |-> TRUE, promoted |-> arenaPromoted]
       ELSE arenaResultFile' \in {arenaResultFile, NoResultFile}
  /\ apc' = "exit"
  /\ exitCode' = 0
  /\ UNCHANGED <<arenaCfg, played, candWins, prodWins, draws, stopReason, rmTries,
                 prodDir, backupDir, arenaPromoted, failedStep>>
  /\ UNCHANGED <<aiVars, pipeVars, moreVars>>

NextArena ==
  \/ LoadModels \/ PlayGame \/ GameThrows \/ Decide
  \/ BackupProd \/ RemoveProd \/ CopyCandidate \/ WriteResult

SpecArena == InitArena /\ [][NextArena]_vars

(***************************************************************************)
(* Properties of the arena script                                          *)
(***************************************************************************)

\* the game loop was left by a break before all games were played
stoppedEarly ==
  /\ apc \notin {"idle", "load", "loop"}
  /\ failedStep \notin {"load", "game"}
  /\ played < GAMES

\* C6: when the game loop stops before all GAMES games are played, it was
\* declared a success with candWins / GAMES >= threshold or a failure with
\* (candWins + remaining) / GAMES < threshold; and with early stop on the loop
\* never goes on past a game after which one of the two holds.
C6_EarlyStopIsJustified ==
  /\ stoppedEarly =>
       \/ /\ stopReason = "success"
          /\ candWins * WINRATE_THRESHOLD[2] >= WINRATE_THRESHOLD[1] * GAMES
       \/ /\ stopReason = "failure"
          /\ (candWins + (GAMES - played)) * WINRATE_THRESHOLD[2] < WINRATE_THRESHOLD[1] * GAMES
  /\ (apc = "loop" /\ EARLY_STOP /\ played > 0) =>
       /\ candWins * WINRATE_THRESHOLD[2] < WINRATE_THRESHOLD[1] * GAMES
       /\ (candWins + (GAMES - played)) * WINRATE_THRESHOLD[2] >= WINRATE_THRESHOLD[1] * GAMES

C6_Witness ==
  /\ stoppedEarly /\ stopReason = "failure" /\ played >= 2 /\ candWins >= 1

\* C7: after a promotion step has failed (backup copy, removal of prod,
\* copy of the candidate) the prod directory holds the complete prior model.
C7_FailedPromotionKeepsProd ==
  (apc = "exit" /\ failedStep \in {"backup", "rm", "copy"}) => prodDir = "prior"

(***************************************************************************)
(* The cycle controller (start_pipeline.ts 26-36, 145-317)                 *)
(***************************************************************************)

MaxCycles == 2

\* the stages in the order of the loop body (start_pipeline.ts 158-302)
StageOrder == <<"self_play", "distill", "arena", "upload", "build_book", "import_book">>

Stages == SeqSet(StageOrder)

stageIndex(s) == CHOOSE i \in 1..Len(StageOrder) : StageOrder[i] = s

\* the condition under which the loop body spawns the subprocess of stage t
due(t, prom) ==
  CASE t = "self_play" -> TRUE
    [] t = "distill" -> runDistill
    [] t = "arena" -> gatingEnabled
    [] t = "upload" -> runUpload /\ (~gatingEnabled \/ prom)
    [] t = "build_book" -> autoBook
    [] t = "import_book" -> autoBook /\ importBook /\ hasSupabase

\* the stage spawned next after stage s, "end" when the loop body is over
nextStage(s, prom) ==
  LET later == {i \in (stageIndex(s) + 1)..Len(StageOrder) : due(StageOrder[i], prom)}
  IN IF later = {} THEN "end"
     ELSE StageOrder[CHOOSE i \in later : \A j \in later : i <= j]

startPhase(t) ==
  CASE t = "self_play" -> "self_play_start"
    [] t = "distill" -> "distill_start"
    [] t = "arena" -> "arena_start"
    [] t = "upload" -> "upload_start"
    [] t = "build_book" -> "book_build_start"
    [] t = "import_book" -> "book_import_start"

donePhase(t) ==
  CASE t = "self_play" -> "self_play_done"
    [] t = "distill" -> "distill_done"
    [] t = "arena" -> "arena_done"
    [] t = "upload" -> "upload_done"
    [] t = "import_book" -> "book_import_done"

\* status.ts 66-80: the patch is merged into the file, or the failure is swallowed
updateStatus(st, field, val, ok) == IF ok THEN [st EXCEPT ![field] = val] ELSE st

\* a runScript whose promise is already resolved when the child has been spawned
runScriptSettlesAtSpawn(event, code) ==
  CASE event = "close" -> IF code # 0 THEN "fail" ELSE "ok"
    [] event = "error" -> "fail"
    [] OTHER -> "ok"

\* start_pipeline.ts 30-34: the promise settles on 'close' (resolved for code 0,
\* rejected otherwise) or on 'error'; until then it is pending
runScriptSettles(event, code) ==
  CASE event = "close" -> IF code # 0 THEN "fail" ELSE "ok"
    [] event = "error" -> "fail"
    [] OTHER -> "pending"

\* a loop body whose arena stage has no try/catch of its own
stageCatchNoArena(s) == s \in Stages \ {"arena"}

\* start_pipeline.ts 162-301: every runScript call sits in its own try/catch
stageCatch(s) == s \in Stages

\* start_pipeline.ts 156: while (forever || cycle <= cycles), forever being cycles === 0
loopGoesOn == cycles = 0 \/ cycle <= cycles

\* start_pipeline.ts 28-34: spawn; either the child runs or 'error' is emitted
Spawn(t) ==
  \E spawned \in BOOLEAN :
    IF spawned THEN /\ alive' = alive \cup {t}
                    /\ settle' = runScriptSettles("spawn", 0)
    ELSE /\ alive' = alive
         /\ settle' = runScriptSettles("error", 0)

InitPipeline ==
  /\ cycles \in {0, 1}
  /\ runDistill \in BOOLEAN /\ runUpload \in BOOLEAN /\ autoBook \in BOOLEAN
  /\ importBook \in BOOLEAN /\ gatingEnabled \in BOOLEAN /\ hasSupabase \in BOOLEAN
  /\ cycle = 1 /\ stage = "idle" /\ settle = "none" /\ alive = {}
  /\ hadError = FALSE /\ promoted = FALSE /\ status = [phase |-> "none", error |-> "none"]
  /\ started = <<>> /\ failedStages = {} /\ lastFailed = "none"
  /\ errorWriteOk = FALSE /\ arenaRunPromoted = FALSE /\ phaseWritesOk = TRUE
  /\ arenaResultFile = NoResultFile
  /\ IdleAI /\ IdleArena /\ IdleMore

\* start_pipeline.ts 156-163: the loop condition holds; self-play is spawned
StartCycle ==
  /\ stage = "idle"
  /\ loopGoesOn
  /\ cycle <= MaxCycles
  /\ \E ok \in BOOLEAN :
       /\ status' = updateStatus(status, "phase", startPhase("self_play"), ok)
       /\ phaseWritesOk' = ok
  /\ hadError' = FALSE
  /\ promoted' = FALSE
  /\ stage' = "self_play"
  /\ Spawn("self_play")
  /\ started' = <<"self_play">>
  /\ failedStages' = {} /\ lastFailed' = "none" /\ errorWriteOk' = FALSE
  /\ arenaRunPromoted' = FALSE
  /\ UNCHANGED <<pipeCfg, cycle, arenaResultFile>>
  /\ UNCHANGED <<aiVars, arenaVars, moreVars>>

\* start_pipeline.ts 156, 311: the loop condition fails; main returns and the
\* status server keeps the process alive
LeaveLoop ==
  /\ stage = "idle"
  /\ ~loopGoesOn
  /\ stage' = "left"
  /\ UNCHANGED <<pipeCfg, cycle, settle, alive, hadError, promoted, status, started,
                 failedStages, lastFailed, errorWriteOk, arenaRunPromoted, arenaResultFile,
                 phaseWritesOk>>
  /\ UNCHANGED <<aiVars, arenaVars, moreVars>>

\* a child other than the arena exits; start_pipeline.ts 30-33 settles the promise
ChildCloses ==
  /\ \E s \in alive \ {"arena"}, code \in {0, 1} :
       /\ alive' = alive \ {s}
       /\ settle' = IF s = stage /\ settle = "pending"
                    THEN runScriptSettles("close", code) ELSE settle
  /\ UNCHANGED <<pipeCfg, cycle, stage, hadError, promoted, status, started,
                 failedStages, lastFailed, errorWriteOk, arenaRunPromoted, arenaResultFile,
                 phaseWritesOk>>
  /\ UNCHANGED <<aiVars, arenaVars, moreVars>>

\* the arena child exits (rules_swap2.ts 158-267): with code 1 and the result
\* file untouched, or with code 0 after it wrote the file or failed to write it
ArenaCloses ==
  /\ "arena" \in alive
  /\ \E code \in {0, 1}, p \in BOOLEAN, written \in BOOLEAN :
       /\ code = 1 => (~p /\ ~written)
       /\ arenaRunPromoted' = p
       /\ IF written THEN arenaResultFile' = [present |-> TRUE, promoted |-> p]
          ELSE IF code = 1 THEN arenaResultFile' = arenaResultFile
          ELSE arenaResultFile' \in {arenaResultFile, NoResultFile}
       /\ settle' = IF stage = "arena" /\ settle = "pending"
                    THEN runScriptSettles("close", code) ELSE settle
  /\ alive' = alive \ {"arena"}
  /\ UNCHANGED <<pipeCfg, cycle, stage, hadError, promoted, status, started,
                 failedStages, lastFailed, errorWriteOk, phaseWritesOk>>
  /\ UNCHANGED <<aiVars, arenaVars, moreVars>>

\* start_pipeline.ts 163-317: the awaited promise has settled; the stage's
\* success or catch branch runs, then the loop body goes on to the next stage
\* that is due and spawns it, or ends the cycle (cycle++ and the delay); a
\* rejection that no stage catches reaches the outer catch and ends the loop
StageSettled ==
  /\ stage \in Stages
  /\ settle \in {"ok", "fail"}
  /\ \E ok1 \in BOOLEAN, ok2 \in BOOLEAN :
       LET failed == settle = "fail"
           prom == IF stage = "arena" /\ ~failed
                   THEN arenaResultFile.present /\ arenaResultFile.promoted
                   ELSE promoted
           t == nextStage(stage, prom)
           st1 == IF failed
                  THEN IF stage # "import_book"
                       THEN updateStatus(status, "error", stage, ok1) ELSE status
                  ELSE IF stage # "build_book"
                       THEN updateStatus(status, "phase", donePhase(stage), ok1) ELSE status
           importSkipped == /\ stageIndex(stage) < stageIndex("import_book")
                            /\ autoBook /\ importBook /\ ~hasSupabase
       IN IF failed /\ ~stageCatch(stage)
          THEN /\ status' = IF ok1 THEN [phase |-> "error", error |-> "pipeline"] ELSE status
               /\ stage' = "failed"
               /\ settle' = "none"
               /\ UNCHANGED <<cycle, alive, hadError, promoted, started,
                              failedStages, lastFailed, errorWriteOk, phaseWritesOk>>
          ELSE /\ promoted' = prom
               /\ hadError' = (hadError \/ (failed /\ stage # "import_book"))
               /\ failedStages' = IF failed THEN failedStages \cup {stage} ELSE failedStages
               /\ lastFailed' = IF failed THEN stage ELSE "none"
               /\ errorWriteOk' = (failed /\ stage # "import_book" /\ ok1)
               /\ phaseWritesOk' = /\ phaseWritesOk
                                   /\ (~failed /\ stage # "build_book") => ok1
                                   /\ (t # "end" \/ importSkipped) => ok2
               /\ IF t = "end"
                  THEN /\ status' = IF importSkipped
                                    THEN updateStatus(st1, "phase", startPhase("import_book"), ok2)
                                    ELSE st1
                       /\ cycle' = cycle + 1
                       /\ stage' = "idle"
                       /\ settle' = "none"
                       /\ UNCHANGED <<alive, started>>
                  ELSE /\ status' = updateStatus(st1, "phase", startPhase(t), ok2)
                       /\ cycle' = cycle
                       /\ stage' = t
                       /\ started' = Append(started, t)
                       /\ Spawn(t)
  /\ UNCHANGED <<pipeCfg, arenaRunPromoted, arenaResultFile>>
  /\ UNCHANGED <<aiVars, arenaVars, moreVars>>

NextPipeline ==
  StartCycle \/ LeaveLoop \/ ChildCloses \/ ArenaCloses \/ StageSettled

SpecPipeline == InitPipeline /\ [][NextPipeline]_vars

(***************************************************************************)
(* Properties of the cycle controller                                      *)
(***************************************************************************)

\* the four stages whose failure the controller reports as a pipeline error
ReportedStages == {"self_play", "distill", "arena", "upload"}

\* the stages after s in the loop body
laterStages(s) == {t \in Stages : stageIndex(t) > stageIndex(s)}

C9_FixedOrderOneAtATime ==
  /\ Cardinality(alive) <= 1
  /\ alive \subseteq {stage}
  /\ \A i \in 1..Len(started), j \in 1..Len(started) :
       i < j => stageIndex(started[i]) < stageIndex(started[j])
  /\ \A i \in 1..Len(started) : due(started[i], TRUE)

C9_Witness ==
  /\ Len(started) >= 3
  /\ alive = {started[Len(started)]}
  /\ stage = "build_book"

\* C10: with gating enabled the upload is started in a cycle only if the
\* arena run of that cycle promoted the candidate.
C10_UploadOnlyAfterPromotion ==
  (gatingEnabled /\ "upload" \in SeqSet(started)) => arenaRunPromoted

(***************************************************************************)
(* The self-play orchestrator and its workers                              *)
(* (unnamed/part_017 120-189, game_worker.ts 409-443)                      *)
(***************************************************************************)

MaxGameNo == 2

MaxFlushes == 2

\* the number of samples a finished game delivers (its history may be empty)
BatchSizes == {0, 2}

\* a batch pushed last sample first
batchSamplesBackwards(b) == [i \in 1..b.n |-> <<b.w, b.g, b.n + 1 - i>>]

\* the samples of the batch of game g of worker w: <<w, g, 1>>, <<w, g, 2>>, ...
batchSamples(b) == [i \in 1..b.n |-> <<b.w, b.g, i>>]

\* part_017 182-188: after the final flush, zero samples fail the run
finishMain(total) == IF total = 0 THEN "failed" ELSE "done"

\* the samples held by the files written so far
written == UNION {SeqSet(f.data) : f \in files}

\* the samples taken out of the buffer by a flush whose writeFile is pending
inFlush == UNION {SeqSet(f.data) : f \in flushing}

InitSelfPlay ==
  /\ spc = "run" /\ pastEnd = FALSE /\ buffer = <<>> /\ totalSampleCount = 0
  /\ fileCounter = 0 /\ flushing = {} /\ files = {}
  /\ wstate = [w \in Workers |-> "playing"] /\ gameNo = [w \in Workers |-> 1]
  /\ toParent = [w \in Workers |-> <<>>] /\ immediates = [w \in Workers |-> 0]
  /\ toWorker = [w \in Workers |-> 0]
  /\ received = {} /\ dropped = {} /\ aborted = {}
  /\ IdleNotSelfPlay

\* game_worker.ts 376-377, 404, 419-421: the game ends, its batch is posted
\* to the parent and isRunning is cleared
GameEnds(w) ==
  /\ wstate[w] = "playing"
  /\ \E n \in BatchSizes :
       toParent' = [toParent EXCEPT ![w] = Append(@, [w |-> w, g |-> gameNo[w], n |-> n])]
  /\ wstate' = [wstate EXCEPT ![w] = "idle"]
  /\ UNCHANGED <<spc, pastEnd, buffer, totalSampleCount, fileCounter, flushing, files,
                 gameNo, immediates, toWorker, received, dropped, aborted>>
  /\ UNCHANGED notSelfPlay

\* game_worker.ts 415-421: runSelfPlayGame throws; the error is logged,
\* nothing is posted and isRunning is cleared
GameFails(w) ==
  /\ wstate[w] = "playing"
  /\ wstate' = [wstate EXCEPT ![w] = "idle"]
  /\ UNCHANGED <<spc, pastEnd, buffer, totalSampleCount, fileCounter, flushing, files,
                 gameNo, toParent, immediates, toWorker, received, dropped, aborted>>
  /\ UNCHANGED notSelfPlay

\* game_worker.ts 424-426, 409-416: 'start_new_game' arrives at the worker
WorkerStart(w) ==
  /\ toWorker[w] > 0
  /\ wstate[w] \in {"idle", "playing"}
  /\ gameNo[w] < MaxGameNo
  /\ toWorker' = [toWorker EXCEPT ![w] = @ - 1]
  /\ IF wstate[w] = "idle"
     THEN /\ wstate' = [wstate EXCEPT ![w] = "playing"]
          /\ gameNo' = [gameNo EXCEPT ![w] = @ + 1]
     ELSE UNCHANGED <<wstate, gameNo>>
  /\ UNCHANGED <<spc, pastEnd, buffer, totalSampleCount, fileCounter, flushing, files,
                 toParent, immediates, received, dropped, aborted>>
  /\ UNCHANGED notSelfPlay

\* part_017 161-164: a worker thread exits on its own; it is not replaced
WorkerExits(w) ==
  /\ spc = "run"
  /\ wstate[w] \in {"idle", "playing"}
  /\ wstate' = [wstate EXCEPT ![w] = "exited"]
  /\ toWorker' = [toWorker EXCEPT ![w] = 0]
  /\ UNCHANGED <<spc, pastEnd, buffer, totalSampleCount, fileCounter, flushing, files,
                 gameNo, toParent, immediates, received, dropped, aborted>>
  /\ UNCHANGED notSelfPlay

\* a 'message' handler that schedules two restarts for a batch
OnBatchRestartsTwice(w) ==
  /\ spc \in {"run", "final"}
  /\ toParent[w] # <<>>
  /\ LET b == Head(toParent[w])
     IN /\ buffer' = buffer \o batchSamples(b)
        /\ totalSampleCount' = totalSampleCount + b.n
        /\ received' = received \cup SeqSet(batchSamples(b))
  /\ toParent' = [toParent EXCEPT ![w] = Tail(@)]
  /\ immediates' = IF ~pastEnd THEN [immediates EXCEPT ![w] = @ + 2] ELSE immediates
  /\ UNCHANGED <<spc, pastEnd, fileCounter, flushing, files, wstate, gameNo, toWorker,
                 dropped, aborted>>
  /\ UNCHANGED notSelfPlay

\* part_017 144-152: the 'message' handler takes a sample batch
OnBatch(w) ==
  /\ spc \in {"run", "final"}
  /\ toParent[w] # <<>>
  /\ LET b == Head(toParent[w])
     IN /\ buffer' = buffer \o batchSamples(b)
        /\ totalSampleCount' = totalSampleCount + b.n
        /\ received' = received \cup SeqSet(batchSamples(b))
  /\ toParent' = [toParent EXCEPT ![w] = Tail(@)]
  /\ immediates' = IF ~pastEnd THEN [immediates EXCEPT ![w] = @ + 1] ELSE immediates
  /\ UNCHANGED <<spc, pastEnd, fileCounter, flushing, files, wstate, gameNo, toWorker,
                 dropped, aborted>>
  /\ UNCHANGED notSelfPlay

\* part_017 151: the setImmediate callback posts 'start_new_game'; a post to
\* a worker that has ended goes nowhere
RunImmediate(w) ==
  /\ spc \in {"run", "final"}
  /\ immediates[w] > 0
  /\ immediates' = [immediates EXCEPT ![w] = @ - 1]
  /\ toWorker' = IF wstate[w] \in {"idle", "playing"}
                 THEN [toWorker EXCEPT ![w] = @ + 1] ELSE toWorker
  /\ UNCHANGED <<spc, pastEnd, buffer, totalSampleCount, fileCounter, flushing, files,
                 wstate, gameNo, toParent, received, dropped, aborted>>
  /\ UNCHANGED notSelfPlay

\* the clock reaches endAt (part_017 137)
TimePasses ==
  /\ spc = "run"
  /\ ~pastEnd
  /\ pastEnd' = TRUE
  /\ UNCHANGED <<spc, buffer, totalSampleCount, fileCounter, flushing, files,
                 wstate, gameNo, toParent, immediates, toWorker, received, dropped, aborted>>
  /\ UNCHANGED notSelfPlay

\* part_017 169, 126-131: the interval timer calls flush(); the buffer is
\* emptied into `data` and writeFile is awaited
IntervalFlush ==
  /\ spc = "run"
  /\ buffer # <<>>
  /\ fileCounter < MaxFlushes
  /\ flushing' = flushing \cup {[id |-> fileCounter, data |-> buffer, final |-> FALSE]}
  /\ fileCounter' = fileCounter + 1
  /\ buffer' = <<>>
  /\ UNCHANGED <<spc, pastEnd, totalSampleCount, files, wstate, gameNo, toParent,
                 immediates, toWorker, received, dropped, aborted>>
  /\ UNCHANGED notSelfPlay

\* part_017 131-133 and, for the final flush, 179-188: writeFile settles.
\* A rejected interval flush is an unhandled rejection (void flush()), which
\* ends the process or is only reported, depending on the runtime; a rejected
\* final flush rejects main.
WriteSettles ==
  /\ spc \in {"run", "final"}
  /\ \E f \in flushing, ok \in BOOLEAN, fatal \in BOOLEAN :
       /\ flushing' = flushing \ {f}
       /\ files' = IF ok THEN files \cup {f} ELSE files
       /\ dropped' = IF ok THEN dropped ELSE dropped \cup SeqSet(f.data)
       /\ spc' = IF f.final THEN (IF ok THEN finishMain(totalSampleCount) ELSE "failed")
                 ELSE IF ~ok /\ fatal THEN "crashed"
                 ELSE spc
  /\ UNCHANGED <<pastEnd, buffer, totalSampleCount, fileCounter, wstate, gameNo, toParent,
                 immediates, toWorker, received, aborted>>
  /\ UNCHANGED notSelfPlay

\* part_017 173-179: the duration timer fires; every worker is terminated,
\* the interval is cleared and the final flush is called.  Batches posted but
\* not yet taken by the 'message' handler may or may not still be delivered.
DurationOver ==
  /\ spc = "run"
  /\ pastEnd
  /\ aborted' = aborted \cup {w \in Workers : wstate[w] = "playing"}
  /\ wstate' = [w \in Workers |-> IF wstate[w] \in {"idle", "playing"}
                                  THEN "terminated" ELSE wstate[w]]
  /\ toWorker' = [w \in Workers |-> 0]
  /\ \E kept \in SUBSET Workers :
       toParent' = [w \in Workers |-> IF w \in kept THEN toParent[w] ELSE <<>>]
  /\ IF buffer = <<>>
     THEN /\ spc' = finishMain(totalSampleCount)
          /\ UNCHANGED <<flushing, fileCounter, buffer>>
     ELSE /\ spc' = "final"
          /\ flushing' = flushing \cup {[id |-> fileCounter, data |-> buffer, final |-> TRUE]}
          /\ fileCounter' = fileCounter + 1
          /\ buffer' = <<>>
  /\ UNCHANGED <<pastEnd, totalSampleCount, files, gameNo, immediates, received, dropped>>
  /\ UNCHANGED notSelfPlay

NextSelfPlay ==
  \/ \E w \in Workers : GameEnds(w)
  \/ \E w \in Workers : GameFails(w)
  \/ \E w \in Workers : WorkerStart(w)
  \/ \E w \in Workers : WorkerExits(w)
  \/ \E w \in Workers : OnBatch(w)
  \/ \E w \in Workers : RunImmediate(w)
  \/ TimePasses
  \/ IntervalFlush
  \/ WriteSettles
  \/ DurationOver

SpecSelfPlay == InitSelfPlay /\ [][NextSelfPlay]_vars

(***************************************************************************)
(* Properties of the self-play orchestrator                                *)
(***************************************************************************)

\* C11: when the duration is over, no worker is terminated while its game
\* is in progress: each running game finishes and delivers its batch first.
C11_RunningGamesFinish ==
  aborted = {}

\* C12: no sample is dropped because of a failed write: the samples of a
\* flush whose write failed are still in the buffer (or in a later flush
\* under way) or have been written to a file by a later flush.
C12_FailedWriteKeepsSamples ==
  dropped \subseteq (SeqSet(buffer) \cup inFlush \cup written)

(***************************************************************************)
(* The inference server's model handling (server.ts 157-213, 317-360)      *)
(***************************************************************************)

MaxMtime == 3

\* the model evaluations of one search, each after an await (ai.ts 767, 1064-1066)
MaxEvals == 2

\* server.ts 355: the model has been primed at startup
InitServer ==
  /\ model = 1 /\ lastModelMtimeMs = 1 /\ fileMtime = 1 /\ loaded = 1
  /\ disposeCalls = [m \in ModelIds |-> 0]
  /\ task = [t \in Tasks |-> [pc |-> "idle", kind |-> "none", m |-> 0, evals |-> 0]]
  /\ usedDisposed = FALSE
  /\ IdleNotServer

\* what ensureModel's caller does with the model returned (server.ts 323-346,
\* 358-360): /get-move searches with it, the periodic check drops it
returned(t, kind, m) ==
  IF kind = "get-move" THEN [pc |-> "search", kind |-> kind, m |-> m, evals |-> 0]
  ELSE [pc |-> "done", kind |-> kind, m |-> 0, evals |-> 0]

\* a training run replaces the model file
ModelFileChanges ==
  /\ fileMtime < MaxMtime
  /\ fileMtime' = fileMtime + 1
  /\ UNCHANGED <<model, lastModelMtimeMs, loaded, disposeCalls, task, usedDisposed>>
  /\ UNCHANGED notServer

\* server.ts 323 or 358-360, then 184-202: a /get-move request or the
\* periodic check calls ensureModel, which awaits loadModel or fsp.stat
CallEnsureModel(t) ==
  /\ task[t].pc = "idle"
  /\ \E kind \in {"get-move", "periodic"} :
       task' = [task EXCEPT ![t] = [pc |-> IF model = 0 THEN "load" ELSE "stat",
                                    kind |-> kind, m |-> 0, evals |-> 0]]
  /\ UNCHANGED <<model, lastModelMtimeMs, fileMtime, loaded, disposeCalls, usedDisposed>>
  /\ UNCHANGED notServer

\* server.ts 202-212: stat settles; a newer mtime disposes the current model
\* and calls loadModel, otherwise (or when stat throws) the model is returned
StatSettles(t) ==
  /\ task[t].pc = "stat"
  /\ \E ok \in BOOLEAN :
       IF ok /\ fileMtime > lastModelMtimeMs
       THEN /\ disposeCalls' = [disposeCalls EXCEPT ![model] = @ + 1]
            /\ task' = [task EXCEPT ![t].pc = "load"]
       ELSE /\ task' = [task EXCEPT ![t] = returned(t, task[t].kind, model)]
            /\ UNCHANGED disposeCalls
  /\ UNCHANGED <<model, lastModelMtimeMs, fileMtime, loaded, usedDisposed>>
  /\ UNCHANGED notServer

\* server.ts 165-181: loadModel settles; on success the global model and
\* lastModelMtimeMs are replaced, on failure ensureModel rejects
LoadSettles(t) ==
  /\ task[t].pc = "load"
  /\ \E ok \in BOOLEAN :
       IF ok /\ loaded < MaxModels
       THEN /\ loaded' = loaded + 1
            /\ model' = loaded + 1
            /\ lastModelMtimeMs' = fileMtime
            /\ task' = [task EXCEPT ![t] = returned(t, task[t].kind, loaded + 1)]
       ELSE /\ task' = [task EXCEPT ![t] = [pc |-> "done", kind |-> task[t].kind,
                                            m |-> 0, evals |-> 0]]
            /\ UNCHANGED <<loaded, model, lastModelMtimeMs>>
  /\ UNCHANGED <<fileMtime, disposeCalls, usedDisposed>>
  /\ UNCHANGED notServer

\* server.ts 346, ai.ts 767, 1064: the search evaluates the model it was given
Evaluate(t) ==
  /\ task[t].pc = "search"
  /\ usedDisposed' = (usedDisposed \/ disposeCalls[task[t].m] > 0)
  /\ task' = [task EXCEPT ![t].evals = @ + 1,
                          ![t].pc = IF task[t].evals + 1 >= MaxEvals THEN "done" ELSE "search"]
  /\ UNCHANGED <<model, lastModelMtimeMs, fileMtime, loaded, disposeCalls>>
  /\ UNCHANGED notServer

NextServer ==
  \/ ModelFileChanges
  \/ \E t \in Tasks : CallEnsureModel(t)
  \/ \E t \in Tasks : StatSettles(t)
  \/ \E t \in Tasks : LoadSettles(t)
  \/ \E t \in Tasks : Evaluate(t)

SpecServer == InitServer /\ [][NextServer]_vars

\* C13: no search evaluates a model on which dispose() has been called, and
\* dispose() is called at most once on each model, whatever ensureModel
\* calls overlap with the search and with each other.
C13_OldModelStaysUsable ==
  /\ ~usedDisposed
  /\ \A m \in ModelIds : disposeCalls[m] <= 1

(***************************************************************************)
(* updateStatus (status.ts 57-80)                                          *)
(***************************************************************************)

\* patches of the callers: the interval flush (part_017 133), the end of the
\* trainer's main (part_017 187) and a stage failure (start_pipeline.ts 170)
Patches ==
  { [k \in {"selfPlay.samplesTotal", "selfPlay.lastSave"} |-> "flush"],
    [k \in {"phase", "selfPlay.samplesTotal"} |-> "done"],
    [k \in {"error"} |-> "self_play"] }

\* status.ts 57-64: the deep merge; a leaf named by the patch takes the
\* patch's value, every other leaf keeps the previous one
merge(a, b) == [k \in Paths |-> IF k \in DOMAIN b THEN b[k] ELSE a[k]]

InitStatus ==
  /\ statusFile = [ok |-> TRUE, doc |-> emptyDoc]
  /\ call = [c \in Callers |-> [pc |-> "idle", patch |-> noPatch, prev |-> emptyDoc]]
  /\ IdleNotStatus

\* status.ts 66-70: updateStatus(patch) is called and awaits readFile
CallUpdateStatus(c) ==
  /\ call[c].pc = "idle"
  /\ \E p \in Patches : call' = [call EXCEPT ![c] = [pc |-> "read", patch |-> p, prev |-> emptyDoc]]
  /\ UNCHANGED statusFile
  /\ UNCHANGED notStatus

\* status.ts 70-71, 77-79: readFile settles and the text is parsed; the text
\* of a file that is being rewritten does not parse, the catch swallows it
ReadSettles(c) ==
  /\ call[c].pc = "read"
  /\ call' = IF statusFile.ok
             THEN [call EXCEPT ![c].pc = "write", ![c].prev = statusFile.doc]
             ELSE [call EXCEPT ![c].pc = "dropped"]
  /\ UNCHANGED statusFile
  /\ UNCHANGED notStatus

\* status.ts 75-76: writeFile opens the file, which truncates it
WriteBegins(c) ==
  /\ call[c].pc = "write"
  /\ statusFile' = [statusFile EXCEPT !.ok = FALSE]
  /\ call' = [call EXCEPT ![c].pc = "writing"]
  /\ UNCHANGED notStatus

\* status.ts 75-76: writeFile has written merge(prev, patch)
WriteEnds(c) ==
  /\ call[c].pc = "writing"
  /\ statusFile' = [ok |-> TRUE, doc |-> merge(call[c].prev, call[c].patch)]
  /\ call' = [call EXCEPT ![c].pc = "done"]
  /\ UNCHANGED notStatus

NextStatus ==
  \/ \E c \in Callers : CallUpdateStatus(c)
  \/ \E c \in Callers : ReadSettles(c)
  \/ \E c \in Callers : WriteBegins(c)
  \/ \E c \in Callers : WriteEnds(c)

SpecStatus == InitStatus /\ [][NextStatus]_vars

\* every call has returned
allReturned == \A c \in Callers : call[c].pc \in {"done", "dropped"}

\* the leaves that only call c patches
ownPaths(c) ==
  DOMAIN call[c].patch \ UNION {DOMAIN call[d].patch : d \in Callers \ {c}}

\* C14: when overlapping updateStatus calls have all returned, the status
\* file holds the fields of every patch: no update is lost or dropped.
C14_NoLostUpdate ==
  allReturned =>
    /\ statusFile.ok
    /\ \A c \in Callers : \A k \in ownPaths(c) : statusFile.doc[k] = call[c].patch[k]

(***************************************************************************)
(* The search tree of findBestMoveNN (ai.ts 395-475, 487-585, 753-1166)    *)
(*                                                                         *)
(* A node is the line of play that leads to it from the root; the searched *)
(* position has NumMoves playable cells and is past the opening, so the    *)
(* root gets no Dirichlet noise (ai.ts 810) and no threat boost applies.   *)
(* A policy is a vector of integer weights, a prior is weight / sum.       *)
(***************************************************************************)

\* the network as a function of the position: the policy it gives to every
\* cell and the value it gives to the side to move
Evaluators ==
  { [w |-> [m \in Moves |-> 1], v |-> <<0, 0>>],
    [w |-> [m \in Moves |-> IF m = 2 THEN 2 ELSE 1], v |-> <<1, -1>>],
    [w |-> [m \in Moves |-> NumMoves - m], v |-> <<-1, 1>>],
    [w |-> [m \in Moves |-> 0], v |-> <<0, 1>>] }

nnPolicy(ev, p) == ev.w

nnValue(ev, p) == ev.v[(Len(p) % 2) + 1]

\* the budget of the call, in ticks of the clock
TimeLimitTicks == 2

\* the longest the tactical stage takes: its soft deadline is
\* min(1500, 0.3 * timeLimitMs) after the call (ai.ts 681)
TacticalTicks == 1

\* the most leaf selections the model lets one call make
MaxSelections == 5

\* ai.ts 884-886 with timeLimitMs <= 900: Math.min(4, MCTS_BATCH_SIZE)
BATCH_MAX == 4

\* canonicalKey (ai.ts 553-564) of the position after the line of play p: the
\* cells of the side that moved first and of the other side; the side to
\* move follows from them
positionKey(p) ==
  << {p[i] : i \in {j \in DOMAIN p : j % 2 = 1}},
     {p[i] : i \in {j \in DOMAIN p : j % 2 = 0}} >>

\* getPossibleMoves on the position after p
legalAt(p) == Moves \ SeqSet(p)

RECURSIVE sumOver(_, _)
sumOver(f, S) ==
  IF S = {} THEN 0
  ELSE LET x == CHOOSE y \in S : TRUE IN f[x] + sumOver(f, S \ {x})

\* new MCTSNodeNN (ai.ts 405-419); boot counts the visits that
\* bootstrapChildrenFromTT gave the node
newNode(prior) == [visits |-> 0, valueSum |-> 0, prior |-> prior, boot |-> 0]

kidsOf(t, p) == {m \in Moves : Append(p, m) \in DOMAIN t}

isChildOf(q, p) == Len(q) = Len(p) + 1 /\ SubSeq(q, 1, Len(p)) = p

isPrefixOf(q, p) == Len(q) <= Len(p) /\ SubSeq(p, 1, Len(q)) = q

\* the legal cells masked out of a policy and renormalised; uniform when
\* nothing is left (ai.ts 1078-1084, 1114-1116)
maskPolicy(pol, legal) ==
  IF sumOver(pol, legal) <= 0 THEN [m \in legal |-> 1] ELSE [m \in legal |-> pol[m]]

\* tuning.ts 66-79: (1 - mix) * a / sum(a) + mix * b / sum(b) with
\* mix = num / den, over the legal cells, scaled to integers
mixPolicies(a, b, legal, num, den) ==
  LET sa == sumOver(a, legal)
      sb == sumOver(b, legal)
  IN [m \in legal |->
        IF sa > 0 /\ sb > 0 THEN (den - num) * a[m] * sb + num * b[m] * sa
        ELSE IF sa > 0 THEN a[m]
        ELSE IF sb > 0 THEN b[m]
        ELSE 0]

\* MCTSNodeNN.expand (ai.ts 444-464) as the root calls it (ai.ts 878-879):
\* topK is the number of legal moves, so every possible move with a positive
\* prior gets a child.
expandNode(t, p, masked) ==
  LET fresh == {m \in DOMAIN masked : masked[m] > 0 /\ Append(p, m) \notin DOMAIN t}
  IN [q \in DOMAIN t \cup {Append(p, m) : m \in fresh} |->
        IF q \in DOMAIN t THEN t[q] ELSE newNode(masked[q[Len(q)]])]

\* ai.ts 676-678: the tunables of the child widening when the environment
\* does not set them
K_CHILD_BASE == 24

K_CHILD_STEP == 12

K_CHILD_MAX == 128

\* Math.floor(Math.sqrt(n))
isqrt(n) == CHOOSE r \in 0..n : r * r <= n /\ (r + 1) * (r + 1) > n

\* ai.ts 1049: the bound on the children of a leaf opened from the prediction
\* cache, from the tunables as they are; kc holds them and the preset
rawWiden(kc, nVisits, nLegal) ==
  Min(kc.max, Min(nLegal, kc.base + kc.step * isqrt(nVisits + 1)))

\* ai.ts 976-980, 1118-1122: the bound on the children of a leaf opened from
\* the transposition table or from the batch; the fast preset scales the
\* tunables down to no less than 12, 8 and 64
presetWiden(kc, nVisits, nLegal) ==
  LET kcBase == IF kc.fast THEN Max(12, (kc.base * 6) \div 10) ELSE kc.base
      kcStep == IF kc.fast THEN Max(8, (kc.step * 66) \div 100) ELSE kc.step
      kcMax == IF kc.fast THEN Max(64, (kc.max * 7) \div 10) ELSE kc.max
  IN Min(kcMax, Min(nLegal, kcBase + kcStep * isqrt(nVisits + 1)))

\* MCTSNodeNN.expand (ai.ts 444-464) with topK: the candidates are the
\* possible moves with a positive prior, in the order of the cells; when they
\* are more than topK they are sorted by prior, the sort is stable, and the
\* first topK of them get a child unless they have one.  topK = 0 is no bound.
expandTopK(t, p, masked, topK) ==
  LET cands == {m \in DOMAIN masked : masked[m] > 0}
      limit == IF topK # 0 THEN Min(topK, Cardinality(cands)) ELSE Cardinality(cands)
      before(m) == {o \in cands : masked[o] > masked[m] \/ (masked[o] = masked[m] /\ o < m)}
      fresh == {m \in cands : Cardinality(before(m)) < limit /\ Append(p, m) \notin DOMAIN t}
  IN [q \in DOMAIN t \cup {Append(p, m) : m \in fresh} |->
        IF q \in DOMAIN t THEN t[q] ELSE newNode(masked[q[Len(q)]])]

\* bootstrapChildrenFromTT (ai.ts 527-543)
bootstrapChildrenFromTT(t, p, tab) ==
  [q \in DOMAIN t |->
     IF /\ isChildOf(q, p)
        /\ t[q].visits = 0
        /\ positionKey(q) \in DOMAIN tab
        /\ tab[positionKey(q)].visits > 0
     THEN LET ent == tab[positionKey(q)]
              vInit == Min(ent.visits, TT_BOOTSTRAP_VISITS)
          IN [t[q] EXCEPT !.visits = @ + vInit,
                          !.valueSum = @ + ent.value * vInit,
                          !.boot = @ + vInit]
     ELSE t[q]]

\* MCTSNodeNN.backpropagate (ai.ts 466-474)
backpropagate(t, p, value) ==
  [q \in DOMAIN t |->
     IF isPrefixOf(q, p)
     THEN [t[q] EXCEPT !.visits = @ + 1,
                       !.valueSum = @ + (IF (Len(p) - Len(q)) % 2 = 0 THEN value ELSE -value)]
     ELSE t[q]]

\* ttSet, predCacheSet (ai.ts 503-511, 576-585); the caps of 20000 and 5000
\* entries are out of reach, so nothing is evicted
ttSet(tab, key, entry) ==
  [x \in DOMAIN tab \cup {key} |-> IF x = key THEN entry ELSE tab[x]]

\* priors: null
noPriors == [m \in {} |-> 0]

\* ttAccumulate (ai.ts 513-525).  Every value stored for a position is the
\* network's value of it, so the running mean is a whole number.
ttAccumulate(tab, key, value) ==
  IF key \in DOMAIN tab
  THEN LET e == tab[key]
       IN [tab EXCEPT ![key] = [visits |-> e.visits + 1,
                                value |-> (e.value * e.visits + value) \div (e.visits + 1),
                                priors |-> e.priors]]
  ELSE ttSet(tab, key, [visits |-> 1, value |-> value, priors |-> noPriors])

\* MCTSNodeNN.selectChild (ai.ts 425-442): does child a score strictly more
\* than child b?  score = -valueSum / visits + c_puct * prior * sqrt(n) /
\* (1 + visits), with c_puct = 2 above depth 20, n = max(1, parent visits) and
\* prior = weight / W; compared exactly, the square root squared away
scoresMore(a, b, n, W) ==
  LET qnA == IF a.visits = 0 THEN 0 ELSE -a.valueSum
      qdA == IF a.visits = 0 THEN 1 ELSE a.visits
      qnB == IF b.visits = 0 THEN 0 ELSE -b.valueSum
      qdB == IF b.visits = 0 THEN 1 ELSE b.visits
      \* D = qA - qB
      Dn == qnA * qdB - qnB * qdA
      Dd == qdA * qdB
      \* R = uB - uA without the factor sqrt(n)
      Rn == 2 * b.prior * W * (1 + a.visits) - 2 * a.prior * W * (1 + b.visits)
      Rd == W * (1 + a.visits) * W * (1 + b.visits)
      lhs == Dn * Dn * Rd * Rd
      rhs == n * Rn * Rn * Dd * Dd
  IN IF Rn = 0 THEN Dn > 0
     ELSE IF Rn > 0 THEN Dn > 0 /\ lhs > rhs
     ELSE Dn >= 0 \/ lhs < rhs

\* Object.values visits the children by ascending cell index and only a
\* strictly larger score replaces the best
selectChild(t, p) ==
  LET kids == kidsOf(t, p)
      n == Max(1, t[p].visits)
      W == sumOver([m \in kids |-> t[Append(p, m)].prior], kids)
  IN CHOOSE m \in kids :
       \A o \in kids \ {m} :
          IF o < m THEN scoresMore(t[Append(p, m)], t[Append(p, o)], n, W)
          ELSE ~scoresMore(t[Append(p, o)], t[Append(p, m)], n, W)

\* ai.ts 892-897: down from the root until a node without children
RECURSIVE descend(_, _)
descend(t, p) ==
  IF kidsOf(t, p) = {} THEN p ELSE descend(t, Append(p, selectChild(t, p)))

\* one more simulation has ended at a leaf with this key and this value
recordEval(h, key, value) ==
  [x \in DOMAIN h \cup {key} |->
     IF x # key THEN h[x]
     ELSE IF key \in DOMAIN h THEN [n |-> h[key].n + 1, sum |-> h[key].sum + value]
     ELSE [n |-> 1, sum |-> value]]

\* ai.ts 1122-1127, 980-985, 1049-1054: the end of every simulation that
\* opens a leaf; s holds the tree and the transposition table
openLeaf(s, p, masked, value, topK) ==
  [s EXCEPT
     !.tree = backpropagate(
                bootstrapChildrenFromTT(expandTopK(s.tree, p, masked, topK), p, s.ttable),
                p, value),
     !.ttable = ttAccumulate(s.ttable, positionKey(p), value),
     !.evals = recordEval(s.evals, positionKey(p), value)]

\* ai.ts 913-987: the leaf's position has priors in the transposition
\* table; they are mixed with the cached prediction when there is one
\* (CHILD_TT_PRIOR_MIX = 0.35)
fromTT(s, p) ==
  LET key == positionKey(p)
      ent == s.ttable[key]
      legal == legalAt(p)
      base == IF key \in DOMAIN s.predCache
              THEN mixPolicies(s.predCache[key].policy, ent.priors, legal, 7, 20)
              ELSE maskPolicy(ent.priors, legal)
  IN openLeaf(s, p, maskPolicy(base, legal), ent.value,
              presetWiden(s.kc, s.tree[p].visits, Cardinality(legal)))

\* ai.ts 988-1054: the prediction cache has the position and the table has
\* no priors for it, so nothing is mixed in
fromPredCache(s, p) ==
  LET cachedChild == s.predCache[positionKey(p)]
  IN openLeaf(s, p, maskPolicy(cachedChild.policy, legalAt(p)), cachedChild.value,
              rawWiden(s.kc, s.tree[p].visits, Cardinality(legalAt(p))))

\* ai.ts 1069-1128: one item of the batch after the prediction
fromBatch(s, p, ev) ==
  LET key == positionKey(p)
      pol == nnPolicy(ev, p)
      value == nnValue(ev, p)
      stored == [s EXCEPT
                   !.predCache = ttSet(s.predCache, key, [policy |-> pol, value |-> value]),
                   !.ttable = ttSet(s.ttable, key,
                                    [visits |-> 1, value |-> value, priors |-> pol]),
                   !.evals = [x \in DOMAIN s.evals \ {key} |-> s.evals[x]]]
  IN openLeaf(stored, p, maskPolicy(pol, legalAt(p)), value,
              presetWiden(s.kc, s.tree[p].visits, Cardinality(legalAt(p))))

RECURSIVE processPending(_, _, _, _)
processPending(s, items, i, ev) ==
  IF i > Len(items) THEN s
  ELSE processPending(fromBatch(s, items[i], ev), items, i + 1, ev)

\* ai.ts 890-1058: one turn of the for loop on the leaf that was reached
selectLeaf(s, p) ==
  LET key == positionKey(p)
  IN IF legalAt(p) = {}
     THEN [s EXCEPT !.tree = backpropagate(s.tree, p, 0)]
     ELSE IF key \in DOMAIN s.ttable /\ s.ttable[key].priors # noPriors
     THEN fromTT(s, p)
     ELSE IF key \in DOMAIN s.predCache
     THEN fromPredCache(s, p)
     ELSE [s EXCEPT !.pending = Append(s.pending, p)]

\* ai.ts 756-880: the root's prediction, cached or asked for, the mask, the
\* blend with the table's priors (TT_PRIOR_MIX = 0.2), expand and bootstrap
rootStage(s, ev) ==
  LET key == positionKey(<<>>)
      legal == legalAt(<<>>)
      rootPolicy == IF key \in DOMAIN s.predCache THEN s.predCache[key].policy
                    ELSE nnPolicy(ev, <<>>)
      cache == IF key \in DOMAIN s.predCache THEN s.predCache
               ELSE ttSet(s.predCache, key,
                          [policy |-> rootPolicy, value |-> nnValue(ev, <<>>)])
      hasPriors == key \in DOMAIN s.ttable /\ s.ttable[key].priors # noPriors
      sA == sumOver(rootPolicy, legal)
      sB == IF hasPriors THEN sumOver(s.ttable[key].priors, legal) ELSE 0
      blended == IF hasPriors /\ sA > 0 /\ sB > 0
                 THEN mixPolicies(rootPolicy, s.ttable[key].priors, legal, 1, 5)
                 ELSE rootPolicy
      root == [p \in {<<>>} |-> newNode(0)]
  IN [s EXCEPT
        !.tree = bootstrapChildrenFromTT(
                   expandNode(root, <<>>, maskPolicy(blended, legal)), <<>>, s.ttable),
        !.predCache = cache]

\* ai.ts 1145-1165: what the call returns
searchResult(t) ==
  LET kids == kidsOf(t, <<>>)
  IN IF kids = {}
     THEN [bestMove |-> IF legalAt(<<>>) = {} THEN -1 ELSE CHOOSE m \in Moves : \A o \in Moves : m <= o,
           policy |-> noEntries]
     ELSE [bestMove |-> CHOOSE m \in kids :
                          \A o \in kids \ {m} :
                             IF o < m THEN t[<<m>>].visits > t[<<o>>].visits
                             ELSE t[<<m>>].visits >= t[<<o>>].visits,
           policy |-> [m \in kids |-> t[<<m>>].visits]]

timeLeft == now - startTime < TimeLimitTicks

searchState ==
  [tree |-> tree, ttable |-> ttable, predCache |-> predCache, pending |-> pending,
   kc |-> kChild, evals |-> leafEvals]

\* a process starts with empty caches and is asked for a move; the budget is
\* 900 ms or less, which is the fast preset, and the environment sets no tunable
InitSearch ==
  /\ evaluator \in Evaluators
  /\ kChild = [fast |-> TRUE, base |-> K_CHILD_BASE, step |-> K_CHILD_STEP, max |-> K_CHILD_MAX]
  /\ callNo = 1
  /\ mpc = "tactical"
  /\ now = 0
  /\ startTime = 0
  /\ tree = noNodes
  /\ pending = <<>>
  /\ batchK = 0
  /\ selections = 0
  /\ ttable = noEntries
  /\ predCache = noEntries
  /\ batchLog = [c \in Calls |-> <<>>]
  /\ lateBatch = FALSE
  /\ results = [c \in Calls |-> [bestMove |-> 0, policy |-> noEntries]]
  /\ leafEvals = noEntries
  /\ IdleNotSearch

\* Date.now() moves on while the call runs
ClockTicks ==
  /\ mpc \in {"tactical", "loop", "select"}
  /\ IF mpc = "tactical" THEN now < TacticalTicks ELSE timeLeft
  /\ now' = now + 1
  /\ UNCHANGED <<evaluator, kChild, leafEvals, callNo, mpc, startTime, tree, pending, batchK, selections,
                 ttable, predCache, batchLog, lateBatch, results>>
  /\ UNCHANGED notSearch

\* ai.ts 681-880: the tactical stage finds nothing, startTime is read, the
\* root is expanded
RootStage ==
  /\ mpc = "tactical"
  /\ startTime' = now
  /\ \E s \in {rootStage(searchState, evaluator)} :
        /\ tree' = s.tree
        /\ predCache' = s.predCache
  /\ mpc' = "loop"
  /\ UNCHANGED <<evaluator, kChild, leafEvals, callNo, now, pending, batchK, selections, ttable, batchLog,
                 lateBatch, results>>
  /\ UNCHANGED notSearch

\* ai.ts 888-889: the while test passes and a batch begins
StartBatch ==
  /\ mpc = "loop"
  /\ timeLeft
  /\ selections < MaxSelections
  /\ mpc' = "select"
  /\ batchK' = 0
  /\ pending' = <<>>
  /\ lateBatch' = (lateBatch \/ now >= TimeLimitTicks)
  /\ UNCHANGED <<evaluator, kChild, leafEvals, callNo, now, startTime, tree, selections, ttable, predCache,
                 batchLog, results>>
  /\ UNCHANGED notSearch

\* ai.ts 890-1058: one turn of the for loop
SelectLeaf ==
  /\ mpc = "select"
  /\ batchK < BATCH_MAX
  /\ timeLeft
  /\ selections < MaxSelections
  /\ \E s \in {selectLeaf(searchState, descend(tree, <<>>))} :
        /\ tree' = s.tree
        /\ ttable' = s.ttable
        /\ predCache' = s.predCache
        /\ pending' = s.pending
        /\ leafEvals' = s.evals
  /\ batchK' = batchK + 1
  /\ selections' = selections + 1
  /\ UNCHANGED <<evaluator, kChild, callNo, mpc, now, startTime, batchLog, lateBatch, results>>
  /\ UNCHANGED notSearch

\* ai.ts 1059-1142: the for loop is left, the pending leaves are predicted
\* in one batch and opened.  The early stop needs 120 visits under the root
\* (ai.ts 1132), more than MaxSelections allows.
EndBatch ==
  /\ mpc = "select"
  /\ ~(batchK < BATCH_MAX /\ timeLeft)
  /\ \E s \in {processPending(searchState, pending, 1, evaluator)} :
        /\ tree' = s.tree
        /\ ttable' = s.ttable
        /\ predCache' = s.predCache
        /\ leafEvals' = s.evals
  /\ pending' = <<>>
  /\ batchLog' = [batchLog EXCEPT ![callNo] = Append(@, batchK)]
  /\ mpc' = "loop"
  /\ UNCHANGED <<evaluator, kChild, callNo, now, startTime, batchK, selections, lateBatch, results>>
  /\ UNCHANGED notSearch

\* ai.ts 888, 1145-1165: the while test fails and the call returns
ReturnResult ==
  /\ mpc = "loop"
  /\ ~timeLeft
  /\ results' = [results EXCEPT ![callNo] = searchResult(tree)]
  /\ mpc' = "done"
  /\ UNCHANGED <<evaluator, kChild, leafEvals, callNo, now, startTime, tree, pending, batchK, selections,
                 ttable, predCache, batchLog, lateBatch>>
  /\ UNCHANGED notSearch

\* the next call in the same process, for the same position: the tree and
\* the clock are new, the caches are the module's
CallAgain ==
  /\ mpc = "done"
  /\ callNo < NumCalls
  /\ callNo' = callNo + 1
  /\ mpc' = "tactical"
  /\ now' = 0
  /\ startTime' = 0
  /\ tree' = noNodes
  /\ pending' = <<>>
  /\ batchK' = 0
  /\ selections' = 0
  /\ UNCHANGED <<evaluator, kChild, leafEvals, ttable, predCache, batchLog, lateBatch, results>>
  /\ UNCHANGED notSearch

NextSearch ==
  \/ ClockTicks
  \/ RootStage
  \/ StartBatch
  \/ SelectLeaf
  \/ EndBatch
  \/ ReturnResult
  \/ CallAgain

SpecSearch == InitSearch /\ [][NextSearch]_vars

\* the nodes with children, and the visits that simulations gave a node
innerNodes == {p \in DOMAIN tree : kidsOf(tree, p) # {}}

realVisits(p) == tree[p].visits - tree[p].boot

\* C15: after a search every node with children has one visit more than its
\* children together, visits given by the transposition-table bootstrap
\* left out.  The root, which is expanded without a visit of its own
\* (ai.ts 879), is set aside: the nodes below it are checked.
C15_NodeVisitsSumUp ==
  mpc = "done" =>
    \A p \in innerNodes \ {<<>>} :
       realVisits(p) =
         1 + sumOver([m \in kidsOf(tree, p) |-> realVisits(Append(p, m))], kidsOf(tree, p))

\* the calls that have returned
finished(c) == c < callNo \/ (c = callNo /\ mpc = "done")

\* C18: two calls for the same position with the same evaluator that went
\* through the same batches return the same move and the same visit policy
C18_SameCallSameAnswer ==
  \A c \in Calls : \A d \in Calls :
     (finished(c) /\ finished(d) /\ batchLog[c] = batchLog[d]) => results[c] = results[d]

\* C19: no batch begins once the budget has passed since the call
C19_NoBatchAfterBudget == ~lateBatch

(***************************************************************************)
(* One self-play game of a worker (game_worker.ts 252-405)                 *)
(***************************************************************************)

\* workerData.explorationMoves
EXPLORATION_MOVES == 2

\* the plies in which the engine's answer is left open between two cells,
\* and those in which it may come back without a simulation
LanePlies == 8
ZeroSimPlies == 1

\* proposeInitialTriple (swap2_negotiation.ts 279-289): black on the centre,
\* then white and black on the first empty cells around it
afterThree ==
  LET mid == N \div 2
  IN Put(Put(Put(emptyBoard, <<mid, mid>>, "black"),
             <<mid - 1, mid - 1>>, "white"),
         <<mid - 1, mid>>, "black")

\* game_worker.ts 261-272: the position the loop starts from.  Without the
\* swap2 rule (or when the negotiation throws) it is the empty board with
\* black to move; with it, here, the second player takes black and the
\* three stones stay (option 1, swap2_negotiation.ts 439-465).
Openings ==
  { [board |-> emptyBoard, toMove |-> "black"],
    [board |-> afterThree, toMove |-> "white"] }

emptyCells(b) == {m \in Cells : b[m[1]][m[2]] = Null}

firstInScan(S) == CHOOSE m \in S : \A o \in S : scanIndex(m[1], m[2]) <= scanIndex(o[1], o[2])

\* a quiet move: the first empty cell that the five-free colouring gives to
\* the side, or the first empty cell
filler(b, who) ==
  LET own == {m \in emptyCells(b) : fullBoard[m[1]][m[2]] = who}
  IN IF own # {} THEN firstInScan(own) ELSE firstInScan(emptyCells(b))

\* a move on the line the side is building: black on the centre column,
\* white on the column left of it
laneMove(b, who) ==
  LET col == IF who = "black" THEN N \div 2 ELSE (N \div 2) - 1
      lane == {m \in emptyCells(b) : m[2] = col}
  IN IF lane # {} THEN firstInScan(lane) ELSE filler(b, who)

\* Object.values(root.children): the children by ascending cell index
policyOf(visitsOf) ==
  LET ms == DOMAIN visitsOf
      ordered == CHOOSE s \in [1..Cardinality(ms) -> ms] :
                   \A i \in DOMAIN s : \A j \in DOMAIN s :
                      i < j => scanIndex(s[i][1], s[i][2]) < scanIndex(s[j][1], s[j][2])
  IN [i \in DOMAIN ordered |-> [move |-> ordered[i], visits |-> visitsOf[ordered[i]]]]

\* ai.ts 1150-1165: the first child with the most visits, and the visits
mctsAnswer(visitsOf) ==
  LET pol == policyOf(visitsOf)
      best == CHOOSE i \in DOMAIN pol :
                \A j \in DOMAIN pol :
                   IF j < i THEN pol[i].visits > pol[j].visits
                   ELSE pol[i].visits >= pol[j].visits
  IN [bestMove |-> pol[best].move, policy |-> pol]

\* ai.ts 695-749: a move of the tactical stage
tacticalAnswer(mv) == [bestMove |-> mv, policy |-> <<[move |-> mv, visits |-> 1]>>]

\* what findBestMoveNN may give back for the position: the sentinel on a
\* full board (ai.ts 1145-1148); a searched answer that prefers the side's
\* own line or the block of the other side's; the same children without a
\* visit when the time was up before the first batch (ai.ts 888); a
\* tactical move later in the game
engineAnswers(b, who, count) ==
  IF ~hasEmpty(b) THEN {[bestMove |-> NoMove, policy |-> <<>>]}
  ELSE IF count >= LanePlies THEN {tacticalAnswer(filler(b, who))}
  ELSE LET a == laneMove(b, who)
           o == laneMove(b, getOpponent(who))
       IN IF a = o THEN {tacticalAnswer(a)}
          ELSE { mctsAnswer([m \in {a, o} |-> IF m = a THEN 2 ELSE 1]),
                 mctsAnswer([m \in {a, o} |-> IF m = o THEN 2 ELSE 1]) }
               \cup (IF count < ZeroSimPlies
                     THEN {mctsAnswer([m \in {a, o} |-> 0])} ELSE {})

RECURSIVE sumVisits(_, _)
sumVisits(pol, i) == IF i > Len(pol) THEN 0 ELSE pol[i].visits + sumVisits(pol, i + 1)

\* game_worker.ts 297-306: the visit counts over their total, on the cells
\* of the answer's moves; every other entry keeps the 0 the array was
\* filled with.  A total of 0 leaves the whole array 0.
policyTarget(mctsPolicy) ==
  LET totalVisits == sumVisits(mctsPolicy, 1)
      moves == {mctsPolicy[i].move : i \in DOMAIN mctsPolicy}
      visitsAt(m) == (CHOOSE i \in DOMAIN mctsPolicy : mctsPolicy[i].move = m)
  IN IF totalVisits > 0
     THEN [num |-> [m \in moves |-> mctsPolicy[visitsAt(m)].visits], den |-> totalVisits]
     ELSE [num |-> [m \in {} |-> 0], den |-> 1]

\* game_worker.ts 328-340: the moves the step may play: sampled by the
\* visit shares (uniformly when there is no visit) in the exploration
\* phase, the best move otherwise
chosenMoves(answer, count) ==
  IF count < EXPLORATION_MOVES /\ Len(answer.policy) > 1
  THEN LET totalVisits == sumVisits(answer.policy, 1)
       IN {answer.policy[i].move :
             i \in {j \in DOMAIN answer.policy : totalVisits = 0 \/ answer.policy[j].visits > 0}}
  ELSE {answer.bestMove}

\* game_worker.ts 342-347
illegalMove(b, mv) == ~inside(mv[1], mv[2]) \/ b[mv[1]][mv[2]] # Null

\* game_worker.ts 364: the value of a step when the game has a winner, as
\* a confusion with blackResult (game_worker.ts 354) would give it
finalValueOfBlack(who, winner) == IF winner = "black" THEN 1 ELSE -1

\* game_worker.ts 364
finalValue(who, winner) == IF who = winner THEN 1 ELSE -1

\* game_worker.ts 351-377, 385-404: the trainingSamples of the message
samplesOf(hist, winner) ==
  [i \in DOMAIN hist |->
     [state |-> hist[i].state,
      player |-> hist[i].player,
      mcts_policy |-> hist[i].mcts_policy,
      final_value |-> IF winner = Null THEN 0 ELSE finalValue(hist[i].player, winner)]]

\* game_worker.ts 252-277
InitWorker ==
  /\ \E o \in Openings :
        /\ gboard = o.board
        /\ toMove = o.toMove
  /\ moveCount = 0
  /\ history = <<>>
  /\ wpc = "playing"
  /\ gameWinner = Null
  /\ trainingSamples = <<>>
  /\ IdleNotWorker

\* game_worker.ts 279-381 and, after a break, 384-404: one turn of the loop
PlayMove ==
  /\ wpc = "playing"
  /\ moveCount < N * N
  /\ \E answer \in engineAnswers(gboard, toMove, moveCount) :
       IF answer.bestMove = NoMove
       THEN \* break: no move
            /\ trainingSamples' = samplesOf(history, Null)
            /\ wpc' = "posted"
            /\ UNCHANGED <<gboard, toMove, moveCount, history, gameWinner>>
       ELSE \E mv \in chosenMoves(answer, moveCount) :
              LET step == [state |-> gboard, player |-> toMove,
                           mcts_policy |-> policyTarget(answer.policy)]
                  hist == Append(history, step)
                  nb == Put(gboard, mv, toMove)
              IN /\ history' = hist
                 /\ IF illegalMove(gboard, mv)
                    THEN \* break: illegal move
                         /\ trainingSamples' = samplesOf(hist, Null)
                         /\ wpc' = "posted"
                         /\ UNCHANGED <<gboard, toMove, moveCount, gameWinner>>
                    ELSE IF checkWin(nb, toMove, mv)
                    THEN /\ gboard' = nb
                         /\ gameWinner' = toMove
                         /\ trainingSamples' = samplesOf(hist, toMove)
                         /\ wpc' = "posted"
                         /\ UNCHANGED <<toMove, moveCount>>
                    ELSE /\ gboard' = nb
                         /\ toMove' = getOpponent(toMove)
                         /\ moveCount' = moveCount + 1
                         /\ UNCHANGED <<wpc, gameWinner, trainingSamples>>
  /\ UNCHANGED notWorker

\* game_worker.ts 279, 384-404: maxMoves turns were played
LoopEnds ==
  /\ wpc = "playing"
  /\ moveCount >= N * N
  /\ trainingSamples' = samplesOf(history, Null)
  /\ wpc' = "posted"
  /\ UNCHANGED <<gboard, toMove, moveCount, history, gameWinner>>
  /\ UNCHANGED notWorker

NextWorker == PlayMove \/ LoopEnds

SpecWorker == InitWorker /\ [][NextWorker]_vars

\* C16: the mcts_policy of every recorded step has no negative entry, is
\* zero on the occupied cells of the step's state and sums to 1
C16_PolicyIsDistribution ==
  \A i \in DOMAIN history :
     LET pol == history[i].mcts_policy
         st == history[i].state
     IN /\ \A m \in DOMAIN pol.num : pol.num[m] >= 0
        /\ \A m \in DOMAIN pol.num : pol.num[m] > 0 => st[m[1]][m[2]] = Null
        /\ sumOver(pol.num, DOMAIN pol.num) = pol.den

\* C20: in an emitted batch a sample is worth +1 when its side to move won
\* the game, -1 when it lost, and every sample is worth 0 when the game
\* ended without a winner
C20_FinalValueFollowsResult ==
  wpc = "posted" =>
    \A i \in DOMAIN trainingSamples :
       trainingSamples[i].final_value =
         (IF gameWinner = Null THEN 0
          ELSE IF trainingSamples[i].player = gameWinner THEN 1 ELSE -1)

\* a game that white won, with samples of both sides
C20_Witness ==
  /\ wpc = "posted"
  /\ gameWinner = "white"
  /\ \E i \in DOMAIN trainingSamples : trainingSamples[i].final_value = 1
  /\ \E i \in DOMAIN trainingSamples : trainingSamples[i].final_value = -1

(***************************************************************************)
(* The symmetry-canonical key of the two caches (ai.ts 96-124, 487-585)    *)
(***************************************************************************)

\* TransformId: I, R90, R180, R270, FlipH, FlipV, Diag, AntiDiag
Transforms == 0..7

\* transformRC (ai.ts 100-112)
transformRC(r, c, t) ==
  CASE t = 0 -> <<r, c>>
    [] t = 1 -> <<c, N - 1 - r>>
    [] t = 2 -> <<N - 1 - r, N - 1 - c>>
    [] t = 3 -> <<N - 1 - c, r>>
    [] t = 4 -> <<r, N - 1 - c>>
    [] t = 5 -> <<N - 1 - r, c>>
    [] t = 6 -> <<c, r>>
    [] t = 7 -> <<N - 1 - c, N - 1 - r>>

\* the transform that undoes t: the two quarter turns undo each other, every
\* other transform undoes itself
inverseOf(t) == IF t = 1 THEN 3 ELSE IF t = 3 THEN 1 ELSE t

\* transformBoard (ai.ts 114-124): out[rr][cc] = board[r][c] for
\* (rr, cc) = transformRC(r, c, t), that is out[x] = board[the cell sent to x]
transformBoard(b, t) ==
  [rr \in Rows |-> [cc \in Rows |->
     LET m == transformRC(rr, cc, inverseOf(t))
     IN b[m[1]][m[2]]]]

\* boardStrKey (ai.ts 550-552): the cells row by row; the strings compared
\* have their separators at the same places, and '-' < 'b' < 'w'
charRank(v) == IF v = Null THEN 0 ELSE IF v = "black" THEN 1 ELSE 2

boardStrKey(b) == [i \in 1..(N * N) |-> charRank(b[(i - 1) \div N][(i - 1) % N])]

\* h < best on strings
lexLess(a, b) ==
  \E i \in DOMAIN a : a[i] < b[i] /\ \A j \in 1..(i - 1) : a[j] = b[j]

\* canonicalKey (ai.ts 553-564): the least key among the eight images
canonicalKey(b, who) ==
  LET keys == {boardStrKey(transformBoard(b, t)) : t \in Transforms}
  IN <<who, CHOOSE h \in keys : \A o \in keys : h = o \/ lexLess(h, o)>>

\* the policy the network gives for a position, as a vector over the cell
\* indices r * N + c of that position: weight on its empty cells, more next
\* to a stone
policyVector(b) ==
  [i \in 0..(N * N - 1) |->
     LET r == i \div N
         c == i % N
     IN IF b[r][c] # Null THEN 0
        ELSE IF \E dr \in {-1, 0, 1}, dc \in {-1, 0, 1} :
                  cellAt(b, r + dr, c + dc) \in Players THEN 2
        ELSE 1]

\* the positions the searches meet: a position without a symmetry of its
\* own with its eight images, and a second position
BaseBoard == boardOf({<<3, 3>>, <<1, 2>>}, {<<2, 2>>})

OtherBoard == boardOf({<<3, 3>>, <<3, 4>>}, {<<2, 3>>, <<2, 4>>})

CacheBoards == {transformBoard(BaseBoard, t) : t \in Transforms} \cup {OtherBoard}

hasPriors(key) == key \in DOMAIN ttMap /\ ttMap[key].priors # noPriors

InitCache ==
  /\ ttMap = noEntries
  /\ predMap = noEntries
  /\ lookup = noLookup
  /\ IdleNotCache

\* ai.ts 913-988, 1056-1077: a leaf with a position that neither cache
\* knows is predicted; predCacheSet and ttSet store the policy as the
\* network gave it for this board
StoreLeaf ==
  /\ \E b \in CacheBoards :
       \E key \in {canonicalKey(b, sideToMove(b))} :
          /\ ~hasPriors(key)
          /\ key \notin DOMAIN predMap
          /\ predMap' = ttSet(predMap, key, [policy |-> policyVector(b), of |-> b])
          /\ ttMap' = ttSet(ttMap, key, [visits |-> 1, priors |-> policyVector(b), of |-> b])
  /\ UNCHANGED lookup
  /\ UNCHANGED notCache

\* ai.ts 913-918: ttGet finds priors for the leaf's position and they are
\* read at the indices of the leaf's board
ReadPriors ==
  /\ \E b \in CacheBoards :
       \E key \in {canonicalKey(b, sideToMove(b))} :
          /\ hasPriors(key)
          /\ lookup' = [board |-> b, from |-> "tt", vector |-> ttMap[key].priors,
                        of |-> ttMap[key].of]
  /\ UNCHANGED <<ttMap, predMap>>
  /\ UNCHANGED notCache

\* ai.ts 757-760, 922-925: predCacheGet finds a policy for the board and it
\* is read at the indices of the board
ReadPrediction ==
  /\ \E b \in CacheBoards :
       \E key \in {canonicalKey(b, sideToMove(b))} :
          /\ key \in DOMAIN predMap
          /\ lookup' = [board |-> b, from |-> "predCache", vector |-> predMap[key].policy,
                        of |-> predMap[key].of]
  /\ UNCHANGED <<ttMap, predMap>>
  /\ UNCHANGED notCache

NextCache == StoreLeaf \/ ReadPriors \/ ReadPrediction

SpecCache == InitCache /\ [][NextCache]_vars

\* C17: a vector that comes back from either cache is indexed by the cells
\* of the board it was looked up for: it is the policy of that board, not
\* of a rotated or reflected image of it
C17_VectorInLookupOrientation ==
  lookup.from # "none" => (lookup.of = lookup.board /\ lookup.vector = policyVector(lookup.board))

(***************************************************************************)
(* Further properties of the self-play orchestrator                        *)
(***************************************************************************)

\* the sequences that hold samples: the buffer, the data of a flush whose
\* write is pending, the data of a written file
sampleHolders == {buffer} \cup {f.data : f \in flushing \cup files}

\* in the sequence d, the samples of one game stand side by side in
\* increasing move order, and none of the game's samples is missing from d
gameKeptWhole(d) ==
  \A p \in 1..Len(d) :
    /\ d[p][3] > 1 => (p > 1 /\ d[p - 1] = <<d[p][1], d[p][2], d[p][3] - 1>>)
    /\ <<d[p][1], d[p][2], d[p][3] + 1>> \in received =>
         (p < Len(d) /\ d[p + 1] = <<d[p][1], d[p][2], d[p][3] + 1>>)

\* C21: the samples of one game are appended contiguously and in increasing
\* move order, and they stay together: the buffer, every flush under way and
\* every replay file holds all the samples of a game or none, in order,
\* whatever the interleaving of worker messages and flush timers.
C21_GameBatchStaysTogether ==
  \A d \in sampleHolders : gameKeptWhole(d)

\* one replay file holds the batches of two games, another file was written
\* before it
C21_Witness ==
  \E f \in files :
    /\ Len(f.data) = 4
    /\ f.id > 0
    /\ \E g \in files : g.id < f.id

(***************************************************************************)
(* The two LRU Maps: the transposition table and the prediction cache      *)
(* (ai.ts 487-525, 545-585).  Only the keys and their order are kept here; *)
(* the entries are those of the search section.                            *)
(***************************************************************************)

\* the capacity of tt (ai.ts 489: TT_CAP, 20000 unless the environment says
\* otherwise) and of predCache (ai.ts 547: 5000), scaled down
TT_CAP == 2

PRED_CACHE_CAP == 2

NumKeys == 4

CacheKeys == 1..NumKeys

\* Map.prototype.has, delete and set on the key order of a Map: set leaves a
\* key that is present where it is and puts a new key last
mapHas(m, key) == \E i \in 1..Len(m) : m[i] = key

mapDelete(m, key) == SelectSeq(m, LAMBDA x : x # key)

mapSet(m, key) == IF mapHas(m, key) THEN m ELSE Append(m, key)

\* a lookup that re-inserts nothing
lruGetNoRefresh(m, key) == m

\* ttGet (ai.ts 496-502), predCacheGet (ai.ts 566-574): a hit is deleted and
\* set again
lruGet(m, key) == IF mapHas(m, key) THEN mapSet(mapDelete(m, key), key) ELSE m

\* ttSet (ai.ts 504-512), predCacheSet (ai.ts 576-585): delete when present,
\* set, and delete the first key when the size exceeds the capacity
lruSet(m, key, cap) ==
  LET cleared == IF mapHas(m, key) THEN mapDelete(m, key) ELSE m
      added == mapSet(cleared, key)
  IN IF Len(added) > cap THEN mapDelete(added, Head(added)) ELSE added

\* ttAccumulate (ai.ts 514-525): an entry that is present is updated, deleted
\* and set again; otherwise ttSet
lruAccumulate(m, key, cap) ==
  IF mapHas(m, key) THEN mapSet(mapDelete(m, key), key) ELSE lruSet(m, key, cap)

\* the order of last use after key has been read or written
touched(u, key) == Append(SelectSeq(u, LAMBDA x : x # key), key)

\* the keys of `before` that are no longer in `after`
goneFrom(before, after) == {before[i] : i \in 1..Len(before)} \ {after[i] : i \in 1..Len(after)}

\* the eviction, if any, of a write that took the keys from m (plus key) to
\* after, with use the order of last use once key has been written
evictionOf(from, m, key, after, use) ==
  IF goneFrom(touched(m, key), after) = {} THEN evicted
  ELSE [from |-> from, key |-> CHOOSE x \in goneFrom(touched(m, key), after) : TRUE,
        oldest |-> Head(use), sizeBefore |-> Len(m)]

\* the order of last use without the keys that left the Map
stillIn(use, after) == SelectSeq(use, LAMBDA x : mapHas(after, x))

InitLru ==
  /\ ttKeys = <<>> /\ predKeys = <<>> /\ ttUse = <<>> /\ predUse = <<>>
  /\ evicted = noEviction
  /\ IdleNotLru

\* ai.ts 536, 786, 913, 998: ttGet
TTGet(key) ==
  /\ ttKeys' = lruGet(ttKeys, key)
  /\ ttUse' = IF mapHas(ttKeys, key) THEN touched(ttUse, key) ELSE ttUse
  /\ UNCHANGED <<predKeys, predUse, evicted>>
  /\ UNCHANGED notLru

\* ai.ts 1077: ttSet
TTSet(key) ==
  /\ ttKeys' = lruSet(ttKeys, key, TT_CAP)
  /\ ttUse' = stillIn(touched(ttUse, key), ttKeys')
  /\ evicted' = evictionOf("tt", ttKeys, key, ttKeys', touched(ttUse, key))
  /\ UNCHANGED <<predKeys, predUse>>
  /\ UNCHANGED notLru

\* ai.ts 984, 1053, 1126: ttAccumulate
TTAccumulate(key) ==
  /\ ttKeys' = lruAccumulate(ttKeys, key, TT_CAP)
  /\ ttUse' = stillIn(touched(ttUse, key), ttKeys')
  /\ evicted' = evictionOf("tt", ttKeys, key, ttKeys', touched(ttUse, key))
  /\ UNCHANGED <<predKeys, predUse>>
  /\ UNCHANGED notLru

\* ai.ts 758, 922, 988: predCacheGet
PredCacheGet(key) ==
  /\ predKeys' = lruGet(predKeys, key)
  /\ predUse' = IF mapHas(predKeys, key) THEN touched(predUse, key) ELSE predUse
  /\ UNCHANGED <<ttKeys, ttUse, evicted>>
  /\ UNCHANGED notLru

\* ai.ts 769, 1076: predCacheSet
PredCacheSet(key) ==
  /\ predKeys' = lruSet(predKeys, key, PRED_CACHE_CAP)
  /\ predUse' = stillIn(touched(predUse, key), predKeys')
  /\ evicted' = evictionOf("predCache", predKeys, key, predKeys', touched(predUse, key))
  /\ UNCHANGED <<ttKeys, ttUse>>
  /\ UNCHANGED notLru

NextLru ==
  \/ \E key \in CacheKeys : TTGet(key)
  \/ \E key \in CacheKeys : TTSet(key)
  \/ \E key \in CacheKeys : TTAccumulate(key)
  \/ \E key \in CacheKeys : PredCacheGet(key)
  \/ \E key \in CacheKeys : PredCacheSet(key)

SpecLru == InitLru /\ [][NextLru]_vars

\* C22: after any sequence of lookups and insertions the transposition table
\* holds at most TT_CAP entries and the prediction cache at most
\* PRED_CACHE_CAP, and an evicted entry is the least recently read or written
\* one of its Map.
C22_CapsHoldAndOldestGoes ==
  /\ Len(ttKeys) <= TT_CAP
  /\ Len(predKeys) <= PRED_CACHE_CAP
  /\ evicted.from # "none" => evicted.key = evicted.oldest

\* the transposition table has evicted a key while full, and its oldest key
\* in insertion order has been refreshed by a read since
C22_Witness ==
  /\ evicted.from = "tt"
  /\ evicted.sizeBefore = TT_CAP
  /\ Len(ttKeys) = TT_CAP
  /\ Len(predKeys) = PRED_CACHE_CAP
  /\ ttKeys[1] > ttKeys[2]

(***************************************************************************)
(* updateStatus and its deep merge on JSON documents (status.ts 57-80).    *)
(* The calls here do not overlap; overlapping calls are those of           *)
(* SpecStatus.                                                             *)
(***************************************************************************)

MaxTs == 2

Stamps == 1..MaxTs

StatusValues == {1, 2}

\* the fields of a value: those of an object, none otherwise ({ ...(a || {}) }
\* of a number, null or undefined has no field)
fieldsOf(a) == IF a.kind = "object" THEN a.fields ELSE <<>>

\* a function with the one key
only(key, v) == [x \in {key} |-> v]

\* the union of two functions on separate keys
both(f, g) == [x \in DOMAIN f \cup DOMAIN g |-> IF x \in DOMAIN f THEN f[x] ELSE g[x]]

\* the patches of the callers: top-level fields, nested selfPlay fields
\* (part_017 133, 188), a nested object given whole, an empty one, null and
\* undefined values
DocPatches ==
  {only("phase", atom(v)) : v \in StatusValues}
    \cup {only("error", x) : x \in {atom(1), nullValue, undefinedValue}}
    \cup {only("selfPlay", object(only("samplesTotal", atom(v)))) : v \in StatusValues}
    \cup {only("selfPlay", object(only("lastSave", atom(v)))) : v \in StatusValues}
    \cup {only("selfPlay", x) : x \in {emptyObject, nullValue,
            object(both(only("samplesTotal", atom(1)), only("lastSave", atom(1))))}}
    \cup {both(only("phase", atom(v)), only("selfPlay", object(only("samplesTotal", atom(v)))))
            : v \in StatusValues}

\* a merge that copies the patch's fields over without descending
shallowMerge(a, b) ==
  object([x \in DOMAIN fieldsOf(a) \cup DOMAIN fieldsOf(b) |->
            IF x \in DOMAIN fieldsOf(b) THEN fieldsOf(b)[x] ELSE fieldsOf(a)[x]])

\* status.ts 57-64: merge(a, b)
RECURSIVE deepMerge(_, _)
deepMerge(a, b) ==
  object([x \in DOMAIN fieldsOf(a) \cup DOMAIN fieldsOf(b) |->
            IF x \in DOMAIN fieldsOf(b)
            THEN IF fieldsOf(b)[x].kind = "object"
                 THEN deepMerge(IF x \in DOMAIN fieldsOf(a) THEN fieldsOf(a)[x]
                                ELSE undefinedValue,
                                fieldsOf(b)[x])
                 ELSE fieldsOf(b)[x]
            ELSE fieldsOf(a)[x]])

\* JSON.parse(JSON.stringify(v)) (status.ts 72, 75): a field whose value is
\* undefined is not written
RECURSIVE jsonStored(_)
jsonStored(v) ==
  IF v.kind # "object" THEN v
  ELSE object([x \in {y \in DOMAIN v.fields : v.fields[y].kind # "undefined"} |->
                 jsonStored(v.fields[x])])

\* status.ts 74: { ts: new Date().toISOString(), ...patch }
withTs(patch, stamp) ==
  object([x \in {"ts"} \cup DOMAIN patch |-> IF x \in DOMAIN patch THEN patch[x] ELSE atom(stamp)])

InitDoc ==
  /\ statusJson = noFile
  /\ lastUpdate = noUpdate
  /\ IdleNotDoc

\* status.ts 66-80: one call of updateStatus from its read to its write; a
\* failed write is swallowed by the catch and leaves the file as it was
UpdateStatusDoc(patch, stamp, ok) ==
  /\ LET prev == IF statusJson.exists THEN statusJson.doc ELSE emptyObject
         next == jsonStored(deepMerge(prev, withTs(patch, stamp)))
     IN /\ statusJson' = IF ok THEN [exists |-> TRUE, doc |-> next] ELSE statusJson
        /\ lastUpdate' = [called |-> TRUE, wrote |-> ok, prev |-> prev,
                          patch |-> withTs(patch, stamp),
                          next |-> IF ok THEN next ELSE prev]
  /\ UNCHANGED notDoc

NextDoc ==
  \E patch \in DocPatches, stamp \in Stamps, ok \in BOOLEAN : UpdateStatusDoc(patch, stamp, ok)

SpecDoc == InitDoc /\ [][NextDoc]_vars

\* the field key is in d and n alike, with the same value
sameAt(d, n, key) ==
  /\ key \in DOMAIN fieldsOf(d) <=> key \in DOMAIN fieldsOf(n)
  /\ key \in DOMAIN fieldsOf(d) => fieldsOf(d)[key] = fieldsOf(n)[key]

\* n differs from d only in fields named in p, at any depth
RECURSIVE onlyPatched(_, _, _)
onlyPatched(d, p, n) ==
  \A key \in DOMAIN fieldsOf(d) \cup DOMAIN fieldsOf(n) :
    IF key \notin DOMAIN fieldsOf(p) THEN sameAt(d, n, key)
    ELSE (fieldsOf(p)[key].kind = "object" /\ key \in DOMAIN fieldsOf(d)
            /\ fieldsOf(d)[key].kind = "object")
           => (/\ key \in DOMAIN fieldsOf(n)
               /\ onlyPatched(fieldsOf(d)[key], fieldsOf(p)[key], fieldsOf(n)[key]))

\* C23: updateStatus(patch) changes only the fields named in patch, at any
\* nesting depth, plus ts: every other top-level field, and every sibling
\* field inside a partially patched nested object, keeps its previous value.
C23_OnlyPatchedFieldsChange ==
  lastUpdate.called => onlyPatched(lastUpdate.prev, lastUpdate.patch, lastUpdate.next)

\* a call patched selfPlay.samplesTotal alone, in a document that held
\* phase, error and selfPlay.lastSave, and wrote the new value
C23_Witness ==
  /\ lastUpdate.wrote
  /\ DOMAIN fieldsOf(lastUpdate.patch) = {"ts", "selfPlay"}
  /\ DOMAIN fieldsOf(fieldsOf(lastUpdate.patch)["selfPlay"]) = {"samplesTotal"}
  /\ {"phase", "error", "selfPlay"} \subseteq DOMAIN fieldsOf(lastUpdate.prev)
  /\ "lastSave" \in DOMAIN fieldsOf(fieldsOf(lastUpdate.prev)["selfPlay"])
  /\ "samplesTotal" \in DOMAIN fieldsOf(fieldsOf(lastUpdate.prev)["selfPlay"])
  /\ fieldsOf(fieldsOf(lastUpdate.next)["selfPlay"])["samplesTotal"]
       # fieldsOf(fieldsOf(lastUpdate.prev)["selfPlay"])["samplesTotal"]
  /\ fieldsOf(fieldsOf(lastUpdate.next)["selfPlay"])["samplesTotal"]
       = fieldsOf(fieldsOf(lastUpdate.patch)["selfPlay"])["samplesTotal"]

(***************************************************************************)
(* The loop control of the cycle controller (start_pipeline.ts 144-156,    *)
(* 305-311).  The loop body is one step here: its stages and their errors  *)
(* are those of SpecPipeline, where no error leaves the body.              *)
(***************************************************************************)

\* the cycles after which a run that is to go on for ever is cut off
MaxLoopCycles == 4

\* start_pipeline.ts 146: Number(process.env.PIPELINE_CYCLES ?? 0)
cyclesOf(env) == IF env.given THEN env.num ELSE 0

\* String.prototype.toLowerCase on the values FOREVER takes here
lowerCase(s) == IF s = "TRUE" THEN "true" ELSE s

\* start_pipeline.ts 153: (process.env.FOREVER || 'false').toLowerCase() === 'true' || cycles === 0
foreverOf(env, n) == lowerCase(IF env = "unset" THEN "false" ELSE env) = "true" \/ n = 0

\* a loop that stops one cycle short
loopConditionShort(fe, c, n) == fe \/ c < n

\* start_pipeline.ts 156, 307: forever || cycle <= cycles
loopCondition(fe, c, n) == fe \/ c <= n

cyclesWanted == cyclesOf(PIPELINE_CYCLES)

runsForever == foreverOf(FOREVER, cyclesWanted)

InitLoop ==
  /\ FOREVER \in {"unset", "false", "true", "TRUE"}
  /\ PIPELINE_CYCLES \in {[given |-> FALSE, num |-> 0]}
                           \cup {[given |-> TRUE, num |-> n] : n \in 0..MaxCycles}
  /\ intervalMs \in {0, 1}
  /\ onErrorDelayMs \in {0, 1}
  /\ lpc = "test" /\ loopCycle = 1 /\ cyclesRun = 0 /\ sleptAfter = {}
  /\ IdleNotLoop

\* start_pipeline.ts 156, 312: the loop condition is tested; main returns
\* when it fails
TestLoop ==
  /\ lpc = "test"
  /\ loopCycle <= MaxLoopCycles
  /\ lpc' = IF loopCondition(runsForever, loopCycle, cyclesWanted) THEN "body" ELSE "left"
  /\ UNCHANGED <<FOREVER, PIPELINE_CYCLES, intervalMs, onErrorDelayMs, loopCycle,
                 cyclesRun, sleptAfter>>
  /\ UNCHANGED notLoop

\* start_pipeline.ts 157-311: one cycle, with or without a stage error, then
\* cycle++ and the test for the delay
CycleBody ==
  /\ lpc = "body"
  /\ \E hadErr \in BOOLEAN :
       LET delay == IF hadErr THEN onErrorDelayMs ELSE intervalMs
           sleeps == loopCondition(runsForever, loopCycle + 1, cyclesWanted) /\ delay > 0
       IN /\ lpc' = IF sleeps THEN "sleep" ELSE "test"
          /\ sleptAfter' = IF sleeps THEN sleptAfter \cup {cyclesRun + 1} ELSE sleptAfter
  /\ cyclesRun' = cyclesRun + 1
  /\ loopCycle' = loopCycle + 1
  /\ UNCHANGED <<FOREVER, PIPELINE_CYCLES, intervalMs, onErrorDelayMs>>
  /\ UNCHANGED notLoop

\* start_pipeline.ts 309: the timer of the delay fires
SleepEnds ==
  /\ lpc = "sleep"
  /\ lpc' = "test"
  /\ UNCHANGED <<FOREVER, PIPELINE_CYCLES, intervalMs, onErrorDelayMs, loopCycle,
                 cyclesRun, sleptAfter>>
  /\ UNCHANGED notLoop

NextLoop == TestLoop \/ CycleBody \/ SleepEnds

SpecLoop == InitLoop /\ [][NextLoop]_vars

\* FOREVER is true, in any case of letters
foreverAsked == FOREVER \in {"true", "TRUE"}

\* C24: with FOREVER not true and PIPELINE_CYCLES = n > 0 the controller
\* runs exactly n cycles and then leaves the loop, without sleeping after the
\* last cycle: it never runs more than n, at the loop test it goes on exactly
\* while fewer than n have run, and it has left only after n.  With FOREVER
\* true or PIPELINE_CYCLES = 0 it never leaves the loop, whatever stage errors
\* occur.
C24_CyclesAsConfigured ==
  /\ (~foreverAsked /\ PIPELINE_CYCLES.given /\ PIPELINE_CYCLES.num > 0) =>
       /\ cyclesRun <= PIPELINE_CYCLES.num
       /\ lpc = "left" => cyclesRun = PIPELINE_CYCLES.num
       /\ lpc = "test" =>
            (loopCondition(runsForever, loopCycle, cyclesWanted)
               <=> cyclesRun < PIPELINE_CYCLES.num)
       /\ PIPELINE_CYCLES.num \notin sleptAfter
  /\ (foreverAsked \/ (PIPELINE_CYCLES.given /\ PIPELINE_CYCLES.num = 0)) =>
       /\ lpc # "left"
       /\ lpc = "test" => loopCondition(runsForever, loopCycle, cyclesWanted)

\* two cycles were asked for, the first ended with an error and was followed
\* by the delay, and the controller has left the loop after the second
C24_Witness ==
  /\ FOREVER = "false" /\ PIPELINE_CYCLES = [given |-> TRUE, num |-> 2]
  /\ lpc = "left" /\ cyclesRun = 2 /\ sleptAfter = {1}

\* a run with FOREVER=true and PIPELINE_CYCLES = 1 is in its third cycle
C24_WitnessForever ==
  /\ FOREVER = "true" /\ PIPELINE_CYCLES = [given |-> TRUE, num |-> 1]
  /\ lpc = "body" /\ cyclesRun = 2

(***************************************************************************)
(* The Swap2 negotiation of the second player (server.ts 246-258,          *)
(* swap2_negotiation.ts 17-30, 279-437)                                    *)
(***************************************************************************)

\* swap2_negotiation.ts 17-30: the first empty cell of the squares of radius
\* 1..rings around (r0, c0), rows first; failing that the first empty cell of
\* the board; failing that (-1, -1)
firstEmptyAround(bd, r0, c0, rings) ==
  LET near == {x \in (1..rings) \X ((-rings)..rings) \X ((-rings)..rings) :
                 /\ x[2] >= -x[1] /\ x[2] <= x[1] /\ x[3] >= -x[1] /\ x[3] <= x[1]
                 /\ inside(r0 + x[2], c0 + x[3])
                 /\ bd[r0 + x[2]][c0 + x[3]] = Null}
      before(x, y) == \/ x[1] < y[1]
                      \/ x[1] = y[1] /\ x[2] < y[2]
                      \/ x[1] = y[1] /\ x[2] = y[2] /\ x[3] <= y[3]
      first == CHOOSE x \in near : \A y \in near : before(x, y)
  IN IF near # {} THEN <<r0 + first[2], c0 + first[3]>>
     ELSE IF emptyCells(bd) # {} THEN firstInScan(emptyCells(bd))
     ELSE NoMove

\* swap2_negotiation.ts 279-289: black on the centre when it is empty, then
\* white and black on the first empty cells around the centre
proposeInitialTriple(bd) ==
  LET mid == N \div 2
      b0 == IF bd[mid][mid] = Null THEN Put(bd, <<mid, mid>>, "black") ELSE bd
      w1 == firstEmptyAround(b0, mid, mid, 1)
      b1 == IF w1[1] # -1 THEN Put(b0, w1, "white") ELSE b0
      b2 == firstEmptyAround(b1, mid, mid, 1)
  IN IF b2[1] # -1 THEN Put(b1, b2, "black") ELSE b1

\* a B-W-B triple laid by a first player along the top edge
edgeTriple == Put(Put(Put(emptyBoard, <<0, 0>>, "black"), <<0, 1>>, "white"), <<0, 2>>, "black")

\* boards that hold the opening triple: the one proposeInitialTriple lays on
\* the empty board, and one laid elsewhere
TripleBoards == {proposeInitialTriple(emptyBoard), edgeTriple}

\* the cells a candidate list of the negotiation is drawn from: the centre
\* square of enumerateCandidates' reach (the policy's top moves can be any
\* empty cells)
swapCandidates(bd) ==
  {m \in emptyCells(bd) : centreDistance(m) <= 2}

InitSwap ==
  /\ swapInput \in TripleBoards
  /\ swapResult = noSwapResult
  /\ IdleNotSwap

\* swap2_negotiation.ts 291-437: the triple is proposed on the board given,
\* the three options are scored by the model, and the best one is returned:
\* option 1 the board after the proposal, option 2 that board with a white
\* stone, option 3 with a white and a black stone
PerformSwap2Negotiation(option, w, b, swap) ==
  /\ ~swapResult.done
  /\ LET three == proposeInitialTriple(swapInput)
     IN /\ w \in swapCandidates(three)
        /\ b \in swapCandidates(three) \ {w}
        /\ swapResult' =
             CASE option = 1 -> [done |-> TRUE, option |-> 1, board |-> three,
                                 toMove |-> "white", swapColors |-> TRUE]
               [] option = 2 -> [done |-> TRUE, option |-> 2, board |-> Put(three, w, "white"),
                                 toMove |-> "black", swapColors |-> FALSE]
               [] option = 3 -> [done |-> TRUE, option |-> 3,
                                 board |-> Put(Put(three, w, "white"), b, "black"),
                                 toMove |-> "white", swapColors |-> swap]
  /\ UNCHANGED swapInput
  /\ UNCHANGED notSwap

\* server.ts 248-258: the next request
NextRequest ==
  /\ swapResult.done
  /\ swapInput' \in TripleBoards
  /\ swapResult' = noSwapResult
  /\ UNCHANGED notSwap

NextSwap ==
  \/ \E option \in 1..3, w \in Cells, b \in Cells, swap \in BOOLEAN :
       PerformSwap2Negotiation(option, w, b, swap)
  \/ NextRequest

SpecSwap == InitSwap /\ [][NextSwap]_vars

\* the cells where the board returned holds a stone of colour who that the
\* board given did not hold
addedStones(who) ==
  {m \in Cells : swapResult.board[m[1]][m[2]] = who /\ swapInput[m[1]][m[2]] # who}

\* C25: given a board that already holds the B-W-B opening triple, the
\* negotiation returns that board with no added stone for option 1, with
\* exactly one added white stone for option 2, and with exactly one added
\* white and one added black stone for option 3, and never alters a stone
\* that was there.
C25_Swap2AddsOnlyTheOptionStones ==
  swapResult.done =>
    /\ \A m \in Cells : swapInput[m[1]][m[2]] # Null =>
         swapResult.board[m[1]][m[2]] = swapInput[m[1]][m[2]]
    /\ Cardinality(addedStones("white")) = (IF swapResult.option = 1 THEN 0 ELSE 1)
    /\ Cardinality(addedStones("black")) = (IF swapResult.option = 3 THEN 1 ELSE 0)

(***************************************************************************)
(* The defensive solver on its own (ai.ts 1401-1452), called with what is  *)
(* left of the budget the three solvers share (ai.ts 681-708)              *)
(***************************************************************************)

\* the largest number of budget checks left to the defensive solver
MaxDefenseCut == 24

DefenseCuts == {c \in 0..MaxDefenseCut : c # NoCut} \cup {NoCut}

\* positions in which the side to move is under threat, and one where it is not
DefenseBoards ==
  { \* black has an open three, white to move
    [board |-> boardOf({<<3, 2>>, <<3, 3>>, <<3, 4>>, <<6, 0>>}, {<<0, 0>>, <<6, 6>>, <<0, 6>>}),
     player |-> "white"],
    \* black has two open threes, white to move
    [board |-> boardOf({<<1, 2>>, <<1, 3>>, <<1, 4>>, <<5, 2>>, <<5, 3>>, <<5, 4>>},
                       {<<0, 0>>, <<6, 6>>, <<0, 6>>, <<6, 0>>, <<3, 0>>}),
     player |-> "white"],
    \* white has an open three, black to move
    [board |-> boardOf({<<0, 0>>, <<6, 6>>, <<0, 6>>}, {<<3, 2>>, <<3, 3>>, <<3, 4>>}),
     player |-> "black"],
    \* one stone each, black to move
    [board |-> boardOf({<<3, 3>>}, {<<2, 2>>}), player |-> "black"] }

InitDefense ==
  /\ \E p \in DefenseBoards : dBoard = p.board /\ dPlayer = p.player
  /\ dCut \in DefenseCuts
  /\ dResult = noDefenseResult
  /\ IdleNotDefense

\* the opponent's forced-win search at the solver's depth on the position
\* after the move mv, with no deadline and no node cap
forcedAfter(bd, who, mv) ==
  findForcedWinFirstMove(Put(bd, mv, who), getOpponent(who),
                         defenseDepth(DEFENSE_MAX_DEPTH), 0, NoCut).found

\* ai.ts 703-708, 1401-1452: the defensive solver runs under the budget left.
\* stillForced is history: whether the opponent still has a forced win after
\* the move that was returned.
FindDefenseMove ==
  /\ ~dResult.done
  /\ \E r \in {findDefenseMoveAgainstOpponentForced(dBoard, dPlayer, DEFENSE_MAX_DEPTH, 0, dCut)} :
       dResult' = [done |-> TRUE, found |-> r.found, mv |-> r.mv,
                   stillForced |-> r.found /\ forcedAfter(dBoard, dPlayer, r.mv)]
  /\ UNCHANGED <<dBoard, dPlayer, dCut>>
  /\ UNCHANGED notDefense

NextDefense == FindDefenseMove

SpecDefense == InitDefense /\ [][NextDefense]_vars

\* C26: every move returned by the defensive solver is one after which the
\* opponent's forced-win search, run to completion at the same depth, finds
\* no forced win, also when the deadline or the node cap is reached while a
\* candidate block is being checked.
C26_DefenseMoveRefutes ==
  (dResult.done /\ dResult.found) => ~dResult.stillForced

(***************************************************************************)
(* Further properties of the search loop                                   *)
(***************************************************************************)

\* C27: within one batch no leaf is back-propagated until every leaf of the
\* batch has been selected and evaluated: a turn of the selection loop, be
\* its leaf terminal, served from the transposition table or the prediction
\* cache, or left for the network, changes no visit count and no value sum,
\* so every selection of the batch sees the counts of the batch's start.
C27_NoBackpropWhileSelecting ==
  [][(mpc = "select" /\ mpc' = "select") =>
       \A p \in DOMAIN tree :
         /\ tree'[p].visits = tree[p].visits
         /\ tree'[p].valueSum = tree[p].valueSum]_vars

(***************************************************************************)
(* The early stop of the search loop (ai.ts 888, 1130-1142)                *)
(***************************************************************************)

\* EARLY_STOP_MIN_VISITS (ai.ts 1132: 120 or 220 unless the environment
\* says otherwise), scaled down
EARLY_STOP_MIN_VISITS == 4

\* EARLY_STOP_RATIO (ai.ts 1133): 1.8 as a fraction
EARLY_STOP_RATIO == <<9, 5>>

NumKids == 3

MaxKidVisits == 6

RECURSIVE dominanceScan(_, _, _)

\* ai.ts 1135-1140: the loop over the root's children from child i on, acc
\* holding best, second and total
dominanceScan(v, i, acc) ==
  IF i > Len(v) THEN acc
  ELSE dominanceScan(v, i + 1,
         [total |-> acc.total + v[i],
          best |-> IF v[i] >= acc.best THEN v[i] ELSE acc.best,
          second |-> IF v[i] >= acc.best THEN acc.best
                     ELSE IF v[i] > acc.second THEN v[i] ELSE acc.second])

\* ai.ts 1134-1142: whether the loop breaks after a batch
earlyBreak(v) ==
  /\ Len(v) > 1
  /\ LET s == dominanceScan(v, 1, [total |-> 0, best |-> 0, second |-> 0])
     IN /\ s.total >= EARLY_STOP_MIN_VISITS
        /\ s.best * EARLY_STOP_RATIO[2] >= EARLY_STOP_RATIO[1] * Max(1, s.second)

InitStop ==
  /\ kidVisits \in {[i \in 1..n |-> 0] : n \in 1..NumKids}
  /\ epc = "loop"
  /\ IdleNotStop

\* ai.ts 888-1142: the while test passes, a batch adds visits under the
\* root's children, and the early stop is tested
BatchThenTest ==
  /\ epc = "loop"
  /\ \E i \in 1..Len(kidVisits), more \in 1..2 :
       /\ kidVisits[i] + more <= MaxKidVisits
       /\ kidVisits' = [kidVisits EXCEPT ![i] = @ + more]
  /\ epc' = IF earlyBreak(kidVisits') THEN "stopped" ELSE "loop"
  /\ UNCHANGED notStop

\* ai.ts 888: the while test fails, the deadline has passed
DeadlinePasses ==
  /\ epc = "loop"
  /\ epc' = "timeout"
  /\ UNCHANGED kidVisits
  /\ UNCHANGED notStop

NextStop == BatchThenTest \/ DeadlinePasses

SpecStop == InitStop /\ [][NextStop]_vars

\* the visits of the most visited child, and of the second most visited one
\* (the most visited of the others)
mostVisited == CHOOSE i \in 1..Len(kidVisits) : \A j \in 1..Len(kidVisits) : kidVisits[i] >= kidVisits[j]

secondVisits ==
  IF Len(kidVisits) < 2 THEN 0
  ELSE LET others == (1..Len(kidVisits)) \ {mostVisited}
       IN kidVisits[CHOOSE i \in others : \A j \in others : kidVisits[i] >= kidVisits[j]]

\* C28: the search loop ends before its deadline only when the root's most
\* visited child has at least EARLY_STOP_MIN_VISITS visits and at least
\* EARLY_STOP_RATIO times the visits of the second most visited child.
C28_EarlyStopNeedsDominantChild ==
  epc = "stopped" =>
    /\ kidVisits[mostVisited] >= EARLY_STOP_MIN_VISITS
    /\ kidVisits[mostVisited] * EARLY_STOP_RATIO[2] >= EARLY_STOP_RATIO[1] * secondVisits

\* the 'message' handler takes a batch of worker w in this step
batchTaken(w) ==
  /\ spc \in {"run", "final"}
  /\ toParent[w] # <<>>
  /\ toParent'[w] = Tail(toParent[w])
  /\ totalSampleCount' = totalSampleCount + Head(toParent[w]).n
  /\ buffer' = buffer \o batchSamples(Head(toParent[w]))

\* a 'start_new_game' is posted to worker w in this step
startSent(w) == toWorker'[w] > toWorker[w]

\* C29 (as amended): each sample batch received from a worker before the
\* deadline schedules exactly one start_new_game for that same worker and a
\* batch received after it schedules none; every start_new_game that is sent
\* is one of those scheduled for its worker (the send itself, put off by
\* setImmediate, may fall after the deadline); and a worker that has exited
\* stays so: it is never replaced.
C29_OneRestartPerEarlyBatch ==
  [][\A w \in Workers :
       /\ batchTaken(w) =>
            immediates'[w] = immediates[w] + (IF pastEnd THEN 0 ELSE 1)
       /\ immediates'[w] > immediates[w] => (batchTaken(w) /\ ~pastEnd)
       /\ startSent(w) =>
            /\ toWorker'[w] = toWorker[w] + 1
            /\ immediates'[w] = immediates[w] - 1
       /\ wstate[w] = "exited" => wstate'[w] = "exited"]_vars

\* a worker is in its second game, started by a start_new_game, while the
\* other worker has exited and its scheduled restart went nowhere
C29_Witness ==
  \E w \in Workers, x \in Workers :
    /\ gameNo[w] = 2 /\ wstate[w] = "playing"
    /\ wstate[x] = "exited" /\ gameNo[x] = 1 /\ immediates[x] = 0
    /\ \E s \in received : s[1] = x

\* C29 (as stated): the same, and no start_new_game is sent after the
\* deadline.
C29_AsStated ==
  [][\A w \in Workers :
       /\ batchTaken(w) =>
            immediates'[w] = immediates[w] + (IF pastEnd THEN 0 ELSE 1)
       /\ immediates'[w] > immediates[w] => (batchTaken(w) /\ ~pastEnd)
       /\ startSent(w) =>
            /\ ~pastEnd
            /\ toWorker'[w] = toWorker[w] + 1
            /\ immediates'[w] = immediates[w] - 1
       /\ wstate[w] = "exited" => wstate'[w] = "exited"]_vars

\* The orchestrator and its workers with the scheduling Node gives them: a
\* message that has been posted is delivered and its handler runs, and a
\* setImmediate callback runs.  Nothing is assumed about how long a game
\* lasts, when a worker exits or when the deadline comes.
SpecSelfPlayFair ==
  /\ SpecSelfPlay
  /\ \A w \in Workers :
       /\ WF_vars(OnBatch(w))
       /\ WF_vars(RunImmediate(w))
       /\ WF_vars(WorkerStart(w))

\* C30: until the deadline every worker that is still alive keeps playing:
\* after its game has ended for any reason (a win, a draw, an exception
\* thrown inside the game) another game is eventually started on it, unless
\* the deadline comes, the worker ends or the orchestrator stops first.
\* (Games beyond MaxGameNo are outside the model.)
C30_LiveWorkerKeepsPlaying ==
  \A w \in Workers :
    (wstate[w] = "idle" /\ gameNo[w] < MaxGameNo)
      ~> (wstate[w] # "idle" \/ pastEnd \/ spc # "run")

\* the files that hold the sample s
filesHolding(s) == {f \in files : s \in SeqSet(f.data)}

\* C31: every sample counted in samplesTotal is in exactly one replay file
\* by the time the orchestrator finishes, the batches that arrived while a
\* file write or the final flush was in progress included.  (Writes that
\* failed are set aside: they are the matter of C12; so are runs that end
\* while the write of an interval flush is still pending.)
C31_CountedSamplesAreWritten ==
  (spc = "done" /\ dropped = {} /\ flushing = {}) =>
    /\ totalSampleCount = Cardinality(received)
    /\ \A s \in received : Cardinality(filesHolding(s)) = 1

(***************************************************************************)
(* Two models in one process.  runSelfPlayGame (game_worker.ts 252-291)    *)
(* and playSingleGame (rules_swap2.ts 111-137) call findBestMoveNN with    *)
(* the model of the side to move, so the two models search in turn.  The   *)
(* prediction cache and the transposition table are module-level maps of   *)
(* ai.ts whose key is canonicalKey(board, player) (ai.ts 553-564): the     *)
(* model is no part of it.  A position stands for its key; there are fewer *)
(* positions than either cache holds, so nothing is evicted here.          *)
(***************************************************************************)
NumPositions == 3

Positions == 1..NumPositions

ModelNames == {"black model", "white model"}

\* models[player] of the next move: the sides alternate
otherModel(m) == IF m = "black model" THEN "white model" ELSE "black model"

\* model.predict: what the model m computes for a position
predictionOf(m, key) == [model |-> m, position |-> key]

\* the record of one use of a policy by the search of model m
useOf(m, key, from, policy) == [by |-> m, key |-> key, from |-> from, policy |-> policy]

InitMix ==
  /\ mixPred = emptyCache
  /\ mixTT = emptyCache
  /\ mixModel = "white model"
  /\ mixUse = noUse
  /\ IdleNotMix

\* ai.ts 756-770: a call of findBestMoveNN begins; the root policy is the
\* cached prediction of the position if there is one, else the model's own,
\* which is then cached
RootPrediction(key) ==
  /\ mixModel' = otherModel(mixModel)
  /\ IF key \in DOMAIN mixPred
       THEN /\ mixUse' = useOf(mixModel', key, "predCache", mixPred[key])
            /\ UNCHANGED mixPred
       ELSE /\ mixUse' = useOf(mixModel', key, "model", predictionOf(mixModel', key))
            /\ mixPred' = ttSet(mixPred, key, predictionOf(mixModel', key))
  /\ UNCHANGED mixTT
  /\ UNCHANGED notMix

\* ai.ts 912-986: the leaf's position has priors in the transposition table
LeafFromTT(key) ==
  /\ mixUse # noUse
  /\ key \in DOMAIN mixTT
  /\ mixUse' = useOf(mixModel, key, "tt", mixTT[key])
  /\ UNCHANGED <<mixPred, mixTT, mixModel>>
  /\ UNCHANGED notMix

\* ai.ts 988-1054: no priors in the table, a prediction in the cache
LeafFromPredCache(key) ==
  /\ mixUse # noUse
  /\ key \notin DOMAIN mixTT
  /\ key \in DOMAIN mixPred
  /\ mixUse' = useOf(mixModel, key, "predCache", mixPred[key])
  /\ UNCHANGED <<mixPred, mixTT, mixModel>>
  /\ UNCHANGED notMix

\* ai.ts 1055-1128: neither: the leaf is batched, the model of the call
\* predicts, and the prediction goes into both maps
LeafPredicted(key) ==
  /\ mixUse # noUse
  /\ key \notin DOMAIN mixTT
  /\ key \notin DOMAIN mixPred
  /\ mixUse' = useOf(mixModel, key, "model", predictionOf(mixModel, key))
  /\ mixPred' = ttSet(mixPred, key, predictionOf(mixModel, key))
  /\ mixTT' = ttSet(mixTT, key, predictionOf(mixModel, key))
  /\ UNCHANGED mixModel
  /\ UNCHANGED notMix

NextMix ==
  \E key \in Positions :
    \/ RootPrediction(key)
    \/ LeafFromTT(key)
    \/ LeafFromPredCache(key)
    \/ LeafPredicted(key)

SpecMix == InitMix /\ [][NextMix]_vars

\* C32: every policy a search uses, whether predicted in the call or taken
\* from the prediction cache or the transposition table, was computed by the
\* model of that search.
C32_PolicyComesFromTheSearchingModel ==
  mixUse # noUse => mixUse.policy = predictionOf(mixUse.by, mixUse.key)

(***************************************************************************)
(* The arena's decision with and without early stop                        *)
(***************************************************************************)

\* the results playSingleGame can return
Outcomes == {"draw", "black", "white"}

\* rules_swap2.ts 167-174 without the break of 184-198: the games from number
\* pl on are played with the outcomes rest[j..n]; the candidate's wins at the end
RECURSIVE playRest(_, _, _, _, _)
playRest(rest, j, n, pl, cw) ==
  IF j > n THEN cw
  ELSE LET swap == pl % 2 = 1
           candWon == (rest[j] = "black" /\ ~swap) \/ (rest[j] = "white" /\ swap)
       IN playRest(rest, j + 1, n, pl + 1, IF candWon THEN cw + 1 ELSE cw)

\* rules_swap2.ts 201-202, 219: the test that guards the promotion
promotionDecision(cw, total) ==
  winrateAtLeast(cw, total, WINRATE_THRESHOLD) /\ PROMOTE_ON_PASS

\* C33: when the game loop is left with early stop enabled, the promotion
\* decision taken on the games played equals the decision a run without early
\* stop takes after all GAMES games, however the remaining games turn out.
C33_EarlyStopDecidesAsFullRun ==
  (apc = "decide" /\ EARLY_STOP) =>
    \A rest \in [1..(GAMES - played) -> Outcomes] :
      promotionDecision(candWins, candWins + prodWins + draws)
        = promotionDecision(playRest(rest, 1, GAMES - played, played, candWins), GAMES)

\* the loop was left early on a success with games still to play, one of them lost
C33_Witness ==
  /\ apc = "decide" /\ EARLY_STOP /\ PROMOTE_ON_PASS
  /\ stopReason = "success" /\ played < GAMES /\ prodWins >= 1

\* the loop was left early on a failure although the candidate has won a game
C33_WitnessFailure ==
  /\ apc = "decide" /\ EARLY_STOP /\ PROMOTE_ON_PASS
  /\ stopReason = "failure" /\ played < GAMES /\ candWins >= 1

(***************************************************************************)
(* computeThinkTime (server.ts 268-314).  Times are in milliseconds.  The  *)
(* fractions 0.35, 0.55, 0.5 and 0.9 are taken as exact hundredths:        *)
(* Math.floor(x * 0.35) is (x * 35) \div 100.                              *)
(***************************************************************************)

\* server.ts 23, 25-27: the defaults
EARLY_GAME_MOVES == 6
EARLY_GAME_THINK_TIME == 1500
MID_GAME_THINK_TIME == 3000
LATE_GAME_THINK_TIME == 1500

\* server.ts 29, 260-266: parseTimeControl of the default TIME_CONTROL '5+1'
baseMs == 5000
incMs == 1000

\* server.ts 283
safetyMs == 200

\* the values a client sends in a time field
TimeValues == {0, 300, 1000, 2000, 6000}

\* a field left out, or one of the values
Optional(S) == {{}} \cup {{x} : x \in S}

\* moves.length in the three phases of the game
MoveCounts == {0, 7, 31}

\* server.ts 275-280
phaseBase(body) ==
  IF body.moves <= EARLY_GAME_MOVES THEN EARLY_GAME_THINK_TIME
  ELSE IF body.moves <= 30 THEN MID_GAME_THINK_TIME
  ELSE LATE_GAME_THINK_TIME

\* server.ts 304, 311: the fraction of the remaining time, in hundredths
frac(body) ==
  IF body.moves <= EARLY_GAME_MOVES THEN 35
  ELSE IF body.moves <= 30 THEN 55
  ELSE 50

\* server.ts 284-288: remain, the empty set for null
remainOf(nowMs, body) ==
  IF body.timeLeftMs # {} THEN {Max(0, TheOnly(body.timeLeftMs) - safetyMs)}
  ELSE IF body.turnLimitMs # {} THEN {Max(0, TheOnly(body.turnLimitMs) - safetyMs)}
  ELSE IF body.turnEndsAt # {} THEN {Max(0, TheOnly(body.turnEndsAt) - nowMs - safetyMs)}
  ELSE {}

\* server.ts 305-306, 312-313: the allocation out of the time rem
allocate(body, rem) ==
  LET dynamic == Max(800, (rem * frac(body)) \div 100)
  IN Min(dynamic, Max(phaseBase(body), (rem * 90) \div 100))

\* server.ts 268-314
computeThinkTime(nowMs, body) ==
  IF body.forceThinkTimeMs # {}
    THEN Max(200, Min(5000, TheOnly(body.forceThinkTimeMs)))
  ELSE IF remainOf(nowMs, body) = {}
    THEN allocate(body, Max(0, baseMs + body.own * incMs - safetyMs))
  ELSE allocate(body, TheOnly(remainOf(nowMs, body)))

InitThink ==
  /\ thinkBody \in [forceThinkTimeMs : Optional({100, 1000}),
                    timeLeftMs : Optional(TimeValues),
                    turnLimitMs : Optional(TimeValues),
                    turnEndsAt : Optional(TimeValues),
                    moves : MoveCounts, own : {0, 3}]
  /\ thinkNow \in {0, 500}
  /\ thinkTime = {}
  /\ IdleNotThink

\* server.ts 330-331: the handler computes the think time of the request
GetMoveThinkTime ==
  /\ thinkTime = {}
  /\ thinkTime' = {computeThinkTime(thinkNow, thinkBody)}
  /\ UNCHANGED <<thinkBody, thinkNow>>
  /\ UNCHANGED notThink

NextThink == GetMoveThinkTime

SpecThink == InitThink /\ [][NextThink]_vars

\* the time that remains for the move, as the client gave it
clientRemaining ==
  IF thinkBody.timeLeftMs # {} THEN TheOnly(thinkBody.timeLeftMs)
  ELSE IF thinkBody.turnLimitMs # {} THEN TheOnly(thinkBody.turnLimitMs)
  ELSE TheOnly(thinkBody.turnEndsAt) - thinkNow

\* C34: for a request that carries timeLeftMs, turnLimitMs or turnEndsAt
\* (and no forced think time), the computed think time is at most the
\* remaining time less the safety margin of 200 ms.
C34_ThinkTimeWithinRemaining ==
  ( /\ thinkTime # {}
    /\ thinkBody.forceThinkTimeMs = {}
    /\ remainOf(thinkNow, thinkBody) # {} )
  => TheOnly(thinkTime) <= clientRemaining - safetyMs

\* the done value of a stage: status.ts 17-18 names one for the book build too
doneValue(t) == IF t = "build_book" THEN "book_build_done" ELSE donePhase(t)

\* C35: while the subprocess of a stage is awaited the status file's phase is
\* that stage's start value, and when the last stage of a cycle has succeeded
\* the phase is that stage's done value.  (Status writes that failed are set
\* aside: updateStatus swallows them.)
C35_PhaseTracksStages ==
  /\ (stage \in Stages /\ phaseWritesOk) => status.phase = startPhase(stage)
  /\ (stage = "idle" /\ started # <<>> /\ lastFailed = "none" /\ phaseWritesOk)
       => status.phase = doneValue(started[Len(started)])

\* the empty cells within Chebyshev distance 2 of a stone
nearCells(b) == SeqSet(getPossibleMoves(b, 2))

\* C36: in the early game (at most max(6, N div 3) stones) the root's
\* children are the empty cells within distance 2 of a stone that have a
\* positive prior; the root cap, min(K_ROOT_CAP, number of legal moves), is
\* not reached on this board size.
C36_EarlyRootUsesRadiusTwo ==
  (pc = "search" /\ countStones(board) >= 1 /\ countStones(board) <= Max(6, N \div 3))
    => children = nearCells(board) \cap rootMasked

(***************************************************************************)
(* The model cache of a self-play worker (game_worker.ts 168-184).  A path *)
(* is a number, 0 standing for undefined; a model object is the number of  *)
(* the loadModel call that made it, 0 standing for null.  startGame runs   *)
(* one game at a time (isRunning), so calls of ensureModels do not         *)
(* overlap; reload_models only changes cfg.                                *)
(***************************************************************************)
NumPaths == 2

ModelPaths == 1..NumPaths

\* the most games a worker starts
MaxEnsGames == 3

\* the most models loaded: two for every game
ModelObjects == 1..(2 * MaxEnsGames)

\* dispose() is called on the model object m (null: no call)
disposeModel(calls, m) == IF m = 0 THEN calls ELSE [calls EXCEPT ![m] = @ + 1]

\* game_worker.ts 171-177: the black side; okB: whether loadModel resolves
ensureBlack(c, calls, n, reqBlack, okB) ==
  IF c.black = 0 \/ c.pathBlack # reqBlack
  THEN IF okB
       THEN [cache |-> [c EXCEPT !.black = n + 1, !.pathBlack = reqBlack],
             calls |-> disposeModel(calls, c.black), loaded |-> n + 1, thrown |-> FALSE]
       ELSE [cache |-> c, calls |-> disposeModel(calls, c.black), loaded |-> n, thrown |-> TRUE]
  ELSE [cache |-> c, calls |-> calls, loaded |-> n, thrown |-> FALSE]

\* game_worker.ts 178-182: the white side, after the black one
ensureWhite(s, reqBlack, reqWhite, okW) ==
  LET c == s.cache
  IN IF s.thrown THEN s
     ELSE IF c.white = 0 \/ c.pathWhite # reqWhite
     THEN LET calls == IF c.white # c.black THEN disposeModel(s.calls, c.white) ELSE s.calls
          IN IF reqWhite = reqBlack
             THEN [s EXCEPT !.cache = [c EXCEPT !.white = c.black, !.pathWhite = reqWhite],
                            !.calls = calls]
             ELSE IF okW
             THEN [s EXCEPT !.cache = [c EXCEPT !.white = s.loaded + 1, !.pathWhite = reqWhite],
                            !.calls = calls, !.loaded = s.loaded + 1]
             ELSE [s EXCEPT !.calls = calls, !.thrown = TRUE]
     ELSE s

\* game_worker.ts 168-184
ensureModels(c, calls, n, config, okB, okW) ==
  LET reqBlack == config.prodModelPath
      reqWhite == IF config.opponentModelPath # 0 THEN config.opponentModelPath
                  ELSE config.prodModelPath
  IN ensureWhite(ensureBlack(c, calls, n, reqBlack, okB), reqBlack, reqWhite, okW)

InitEns ==
  /\ ensCfg \in [prodModelPath : ModelPaths, opponentModelPath : {0} \cup ModelPaths]
  /\ modelCache = [black |-> 0, white |-> 0, pathBlack |-> 0, pathWhite |-> 0]
  /\ ensLoaded = 0
  /\ ensDisposeCalls = [m \in ModelObjects |-> 0]
  /\ ensGames = 0
  /\ ensReturned = noModels
  /\ IdleNotEns

\* game_worker.ts 409-421, 252-254: a game is started and asks for its models
StartGame ==
  /\ ensGames < MaxEnsGames
  /\ ensGames' = ensGames + 1
  /\ \E okB \in BOOLEAN, okW \in BOOLEAN :
       \E s \in {ensureModels(modelCache, ensDisposeCalls, ensLoaded, ensCfg, okB, okW)} :
          /\ modelCache' = s.cache
          /\ ensDisposeCalls' = s.calls
          /\ ensLoaded' = s.loaded
          /\ ensReturned' = IF s.thrown THEN noModels
                            ELSE [black |-> s.cache.black, white |-> s.cache.white]
  /\ UNCHANGED ensCfg
  /\ UNCHANGED notEns

\* game_worker.ts 426-434: a reload_models message; prod: msg.prodModelPath
\* (0: absent), hasOpp: 'opponentModelPath' in msg, opp: its value
ReloadModels ==
  /\ \E prod \in {0} \cup ModelPaths, hasOpp \in BOOLEAN, opp \in {0} \cup ModelPaths :
       ensCfg' = [prodModelPath |-> IF prod # 0 THEN prod ELSE ensCfg.prodModelPath,
                  opponentModelPath |-> IF hasOpp THEN opp ELSE ensCfg.opponentModelPath]
  /\ UNCHANGED <<modelCache, ensLoaded, ensDisposeCalls, ensGames, ensReturned>>
  /\ UNCHANGED notEns

NextEns == StartGame \/ ReloadModels

SpecEns == InitEns /\ [][NextEns]_vars

\* C37: the two models ensureModels has returned for a game have not been
\* disposed, and dispose() has been called at most once on any model.
C37_ReturnedModelsAreLive ==
  /\ ensReturned # noModels =>
       /\ ensDisposeCalls[ensReturned.black] = 0
       /\ ensDisposeCalls[ensReturned.white] = 0
  /\ \A m \in ModelObjects : ensDisposeCalls[m] <= 1

(***************************************************************************)
(* The writes of findBestMoveNN and its helpers to the caller's board.     *)
(* The helpers try a stone by `board[r][c] = player`, read the board and   *)
(* take it back by `board[r][c] = null`.  The operators below follow the   *)
(* array through every such write: each returns the array as the function  *)
(* it models leaves it, next to the function's result.  The budget (n,     *)
(* cut) is that of the tactical solvers above.                             *)
(***************************************************************************)

\* a variant of restore that leaves the trial stone on the board
restoreSkipped(bd, m) == bd

\* board[r][c] = null
restore(bd, m) == Put(bd, m, Null)

\* board[r][c] = who; reads of the board; board[r][c] = null
trial(bd, m, who) == restore(Put(bd, m, who), m)

RECURSIVE trials(_, _, _, _, _)

\* a loop that tries a stone of who on every cell of cells from index i on;
\* guarded: with `if (board[r][c] !== null) continue` before the write
trials(bd, cells, i, who, guarded) ==
  IF i > Len(cells) THEN bd
  ELSE IF bd[cells[i][1]][cells[i][2]] # Null /\ guarded
  THEN trials(bd, cells, i + 1, who, guarded)
  ELSE trials(trial(bd, cells[i], who), cells, i + 1, who, guarded)

\* ai.ts 382-393
isForbiddenMoveInPlace(bd, who, m) ==
  IF who # "black" \/ bd[m[1]][m[2]] # Null THEN bd ELSE trial(bd, m, who)

\* ai.ts 1174-1184: no test of the cell, the cells are those of listLegalMoves
winningMovesForInPlace(bd, who) == trials(bd, listLegalMoves(bd), 1, who, FALSE)

\* ai.ts 653-663
listOpenThreeMakersInPlace(bd, who, cands) == trials(bd, cands, 1, who, TRUE)

\* ai.ts 211-243
listConnectedThreeMakersInPlace(bd, who, cands) == trials(bd, cands, 1, who, TRUE)

\* ai.ts 1194-1202, 1261-1270: findThreats only reads
forcedCandidatesInPlace(bd, who) ==
  winningMovesForInPlace(listOpenThreeMakersInPlace(bd, who, listLegalMoves(bd)), who)

\* ai.ts 1317-1336
listThreatCandidatesInPlace(bd, who) ==
  listOpenThreeMakersInPlace(winningMovesForInPlace(bd, who), who, listLegalMoves(bd))

RECURSIVE forcedWinDFSInPlace(_, _, _, _, _)
RECURSIVE forcedWinLoopInPlace(_, _, _, _, _, _, _)
RECURSIVE forcedStepInPlace(_, _, _, _, _, _)

\* ai.ts 1221-1247 and 1287-1308: one pass of the candidate loop of
\* findForcedWinFirstMove or forcedWinDFS (the two bodies make the same
\* writes), for the candidate m after the budget check; ok: the pass returns
\* a win, else the loop goes on
forcedStepInPlace(bd, who, depth, m, n, cut) ==
  IF bd[m[1]][m[2]] # Null THEN [ok |-> FALSE, n |-> n + 1, bd |-> bd]
  ELSE TheOnly({
    IF who = "black" /\ isForbiddenMove(bd, who, m) THEN [ok |-> FALSE, n |-> n + 1, bd |-> b0]
    ELSE TheOnly({
      IF checkWin(b1, who, m) THEN [ok |-> TRUE, n |-> n + 1, bd |-> restore(b1, m)]
      ELSE TheOnly({
        TheOnly({
          IF Len(wm) >= 2 THEN [ok |-> TRUE, n |-> n + 1, bd |-> restore(b2, m)]
          ELSE IF Len(wm) = 1 /\ depth > 0
          THEN TheOnly({
                 [ok |-> sub.ok, n |-> sub.n, bd |-> restore(restore(sub.bd, wm[1]), m)] :
                 sub \in {forcedWinDFSInPlace(Put(b2, wm[1], getOpponent(who)),
                                              who, depth - 1, n + 1, cut)} })
          ELSE [ok |-> FALSE, n |-> n + 1, bd |-> restore(b2, m)] :
          b2 \in {winningMovesForInPlace(b1, who)} }) :
        wm \in {winningMovesFor(b1, who)} }) :
      b1 \in {Put(b0, m, who)} }) :
    b0 \in {isForbiddenMoveInPlace(bd, who, m)} })

\* the candidate loop, from candidate i on
forcedWinLoopInPlace(bd, who, depth, cands, i, n, cut) ==
  IF i > Len(cands) THEN [ok |-> FALSE, n |-> n, bd |-> bd]
  ELSE IF budgetOver(n, cut) THEN [ok |-> FALSE, n |-> n + 1, bd |-> bd]
  ELSE TheOnly({
    IF s.ok THEN s ELSE forcedWinLoopInPlace(s.bd, who, depth, cands, i + 1, s.n, cut) :
    s \in {forcedStepInPlace(bd, who, depth, cands[i], n, cut)} })

\* ai.ts 1251-1311
forcedWinDFSInPlace(bd, who, depth, n, cut) ==
  IF depth <= 0 THEN [ok |-> FALSE, n |-> n, bd |-> bd]
  ELSE IF budgetOver(n, cut) THEN [ok |-> FALSE, n |-> n + 1, bd |-> bd]
  ELSE forcedWinLoopInPlace(forcedCandidatesInPlace(bd, who), who, depth,
                            forcedCandidates(bd, who, DfsFallback), 1, n + 1, cut)

\* ai.ts 1186-1249
findForcedWinFirstMoveInPlace(bd, who, maxDepth, n, cut) ==
  forcedWinLoopInPlace(forcedCandidatesInPlace(bd, who), who, maxDepth,
                       forcedCandidates(bd, who, FirstMoveFallback), 1, n, cut)

RECURSIVE vctDFSInPlace(_, _, _, _, _)
RECURSIVE vctLoopInPlace(_, _, _, _, _, _, _)
RECURSIVE vctStepInPlace(_, _, _, _, _, _)

\* ai.ts 1349-1366 and 1383-1396: one pass of the candidate loop of
\* findVCTWinFirstMove or vctDFS, for the candidate m after the budget check
vctStepInPlace(bd, who, depth, m, n, cut) ==
  IF bd[m[1]][m[2]] # Null THEN [ok |-> FALSE, n |-> n + 1, bd |-> bd]
  ELSE TheOnly({
    IF who = "black" /\ isForbiddenMove(bd, who, m) THEN [ok |-> FALSE, n |-> n + 1, bd |-> b0]
    ELSE TheOnly({
      IF checkWin(b1, who, m) THEN [ok |-> TRUE, n |-> n + 1, bd |-> restore(b1, m)]
      ELSE TheOnly({
        TheOnly({
          IF Len(wins) >= 2 THEN [ok |-> TRUE, n |-> n + 1, bd |-> restore(b2, m)]
          ELSE IF Len(wins) = 1 /\ depth > 0
          THEN TheOnly({
                 [ok |-> sub.ok, n |-> sub.n, bd |-> restore(restore(sub.bd, wins[1]), m)] :
                 sub \in {vctDFSInPlace(Put(b2, wins[1], getOpponent(who)),
                                        who, depth - 1, n + 1, cut)} })
          ELSE [ok |-> FALSE, n |-> n + 1, bd |-> restore(b2, m)] :
          b2 \in {winningMovesForInPlace(b1, who)} }) :
        wins \in {listWinningMoves(b1, who)} }) :
      b1 \in {Put(b0, m, who)} }) :
    b0 \in {isForbiddenMoveInPlace(bd, who, m)} })

\* the candidate loop, from candidate i on
vctLoopInPlace(bd, who, depth, cands, i, n, cut) ==
  IF i > Len(cands) THEN [ok |-> FALSE, n |-> n, bd |-> bd]
  ELSE IF budgetOver(n, cut) THEN [ok |-> FALSE, n |-> n + 1, bd |-> bd]
  ELSE TheOnly({
    IF s.ok THEN s ELSE vctLoopInPlace(s.bd, who, depth, cands, i + 1, s.n, cut) :
    s \in {vctStepInPlace(bd, who, depth, cands[i], n, cut)} })

\* ai.ts 1371-1399
vctDFSInPlace(bd, who, depth, n, cut) ==
  IF depth <= 0 THEN [ok |-> FALSE, n |-> n, bd |-> bd]
  ELSE IF budgetOver(n, cut) THEN [ok |-> FALSE, n |-> n + 1, bd |-> bd]
  ELSE vctLoopInPlace(listThreatCandidatesInPlace(bd, who), who, depth,
                      listThreatCandidates(bd, who), 1, n + 1, cut)

\* ai.ts 1338-1369
findVCTWinFirstMoveInPlace(bd, who, maxDepth, n, cut) ==
  vctLoopInPlace(listThreatCandidatesInPlace(bd, who), who, maxDepth,
                 listThreatCandidates(bd, who), 1, n, cut)

\* ai.ts 1441-1449: one pass of the candidate loop of
\* findDefenseMoveAgainstOpponentForced, for the candidate m after the budget
\* check; ok: the block is returned
defenseStepInPlace(bd, who, maxDepth, m, n, cut) ==
  IF bd[m[1]][m[2]] # Null THEN [ok |-> FALSE, n |-> n + 1, bd |-> bd]
  ELSE TheOnly({
    IF who = "black" /\ isForbiddenMove(bd, who, m) THEN [ok |-> FALSE, n |-> n + 1, bd |-> b0]
    ELSE TheOnly({
      [ok |-> ~stillForced.ok, n |-> stillForced.n, bd |-> restore(stillForced.bd, m)] :
      stillForced \in {findForcedWinFirstMoveInPlace(Put(b0, m, who),
                         getOpponent(who), defenseDepth(maxDepth), n + 1, cut)} }) :
    b0 \in {isForbiddenMoveInPlace(bd, who, m)} })

RECURSIVE defenseLoopInPlace(_, _, _, _, _, _, _)

\* ai.ts 1440-1451: the candidate loop, from candidate i on
defenseLoopInPlace(bd, who, maxDepth, cands, i, n, cut) ==
  IF i > Len(cands) THEN [ok |-> FALSE, n |-> n, bd |-> bd]
  ELSE IF budgetOver(n, cut) THEN [ok |-> FALSE, n |-> n + 1, bd |-> bd]
  ELSE TheOnly({
    IF s.ok THEN s ELSE defenseLoopInPlace(s.bd, who, maxDepth, cands, i + 1, s.n, cut) :
    s \in {defenseStepInPlace(bd, who, maxDepth, cands[i], n, cut)} })

\* ai.ts 1401-1453
findDefenseMoveAgainstOpponentForcedInPlace(bd, who, maxDepth, n, cut) ==
  TheOnly({
    IF ~looming.ok THEN looming
    ELSE defenseLoopInPlace(forcedCandidatesInPlace(looming.bd, getOpponent(who)),
                            who, maxDepth, defenseCandidates(looming.bd, who),
                            1, looming.n, cut) :
    looming \in {findForcedWinFirstMoveInPlace(bd, getOpponent(who),
                                               defenseDepth(maxDepth), n, cut)} })

RECURSIVE immediateLoopInPlace(_, _, _, _, _, _)

\* ai.ts 727-736 (block = FALSE) and 739-751 (block = TRUE): the stone tried
\* is who's, or the opponent's and then isForbiddenMove is asked about the
\* cell; the loop ends at its first return
immediateLoopInPlace(bd, who, legal, i, isBlock, hit) ==
  IF i > Len(legal) \/ i > hit THEN bd
  ELSE IF bd[legal[i][1]][legal[i][2]] # Null
  THEN immediateLoopInPlace(bd, who, legal, i + 1, isBlock, hit)
  ELSE IF isBlock
  THEN LET b1 == trial(bd, legal[i], getOpponent(who))
       IN immediateLoopInPlace(
            IF checkWin(Put(bd, legal[i], getOpponent(who)), getOpponent(who), legal[i])
            THEN isForbiddenMoveInPlace(b1, who, legal[i]) ELSE b1,
            who, legal, i + 1, isBlock, hit)
  ELSE immediateLoopInPlace(trial(bd, legal[i], who), who, legal, i + 1, isBlock, hit)

\* the index of the move m in legal; past the end when it is not there
indexIn(legal, m) ==
  IF m \in SeqSet(legal) THEN CHOOSE i \in 1..Len(legal) : legal[i] = m /\ \A j \in 1..(i - 1) : legal[j] # m
  ELSE Len(legal) + 1

\* ai.ts 681-751 for one budget: the return statement taken and the array
\* as the stage leaves it
tacticalStageInPlace(bd, who, t, cut) ==
  TheOnly({
    IF vct.ok THEN [via |-> "vct", bd |-> vct.bd]
    ELSE TheOnly({
      IF forced.ok THEN [via |-> "forced", bd |-> forced.bd]
      ELSE TheOnly({
        IF defense.ok THEN [via |-> "defense", bd |-> defense.bd]
        ELSE TheOnly({
          TheOnly({
            TheOnly({
              IF immediateWin(bF, who, legal) # NoMove THEN [via |-> "win", bd |-> bW]
              ELSE [via |-> IF immediateBlock(bW, who, legal) # NoMove THEN "block" ELSE "none",
                    bd |-> immediateLoopInPlace(bW, who, legal, 1, TRUE,
                             indexIn(legal, immediateBlock(bW, who, legal)))] :
              bW \in {immediateLoopInPlace(bF, who, legal, 1, FALSE,
                        indexIn(legal, immediateWin(bF, who, legal)))} }) :
            bF \in {IF who = "black" THEN trials(defense.bd, legal, 1, who, TRUE)
                    ELSE defense.bd} }) :
          legal \in {getPossibleMoves(defense.bd, rootRadius(defense.bd))} }) :
        defense \in {findDefenseMoveAgainstOpponentForcedInPlace(
                       forced.bd, who, DEFENSE_MAX_DEPTH, forced.n, cut)} }) :
      forced \in {findForcedWinFirstMoveInPlace(vct.bd, who, FORCED_MAX_DEPTH, vct.n, cut)} }) :
    vct \in {findVCTWinFirstMoveInPlace(bd, who, VCT_ADAPT(t), 0, cut)} })

\* ai.ts 827-832: the makers scanned for the root boosts
rootBoostsInPlace(bd, who, legal) ==
  listConnectedThreeMakersInPlace(
    listConnectedThreeMakersInPlace(
      listOpenThreeMakersInPlace(
        listOpenThreeMakersInPlace(bd, who, legal),
        getOpponent(who), legal),
      who, legal),
    getOpponent(who), legal)

InitFrame ==
  /\ fEntry \in SeedBoards
  /\ fBoard = fEntry
  /\ fPlayer \in {"black", "white"}
  /\ fTime \in TimeLimits
  /\ fpc = "start"
  /\ fVia = "none"
  /\ IdleNotFrame

\* ai.ts 681-751: the solvers under some budget, then the one-move win and block
FrameTactical ==
  /\ fpc = "start"
  /\ \E cut \in 0..NoCut :
       \E r \in {tacticalStageInPlace(fBoard, fPlayer, fTime, cut)} :
          /\ fBoard' = r.bd
          /\ fVia' = r.via
          /\ fpc' = IF r.via = "none" THEN "root" ELSE "done"
  /\ UNCHANGED <<fEntry, fPlayer, fTime>>
  /\ UNCHANGED notFrame

\* ai.ts 753-880: the root stage; it writes to the board in the scans for the boosts
FrameRoot ==
  /\ fpc = "root"
  /\ fBoard' = rootBoostsInPlace(fBoard, fPlayer, getPossibleMoves(fBoard, rootRadius(fBoard)))
  /\ fpc' = "search"
  /\ UNCHANGED <<fEntry, fPlayer, fTime, fVia>>
  /\ UNCHANGED notFrame

\* ai.ts 888-1166: every simulation plays its moves on a copy of the board
\* (891-896); the loop ends and the most visited child or the fallback is returned
FrameSearch ==
  /\ fpc = "search"
  /\ fpc' = "done"
  /\ fVia' \in {"mcts", "fallback"}
  /\ UNCHANGED <<fBoard, fEntry, fPlayer, fTime>>
  /\ UNCHANGED notFrame

NextFrame == FrameTactical \/ FrameRoot \/ FrameSearch

SpecFrame == InitFrame /\ [][NextFrame]_vars

\* C38: at every return of findBestMoveNN - a solver's move, the immediate
\* win or block, after a budget cut-off, the search's result - the caller's
\* board holds what it held on entry.
C38_BoardLeftAsOnEntry == fpc = "done" => fBoard = fEntry

\* a solver returned its move after trial stones were put on the board
C38_Witness ==
  /\ fpc = "done" /\ fVia \in {"vct", "forced", "defense"}
  /\ countStones(fEntry) >= 4

\* the search returned after the root stage scanned the board
C38_WitnessSearch ==
  /\ fpc = "done" /\ fVia = "mcts" /\ countStones(fEntry) >= 2

(***************************************************************************)
(* Child widening under tunables that bind (ai.ts 444-464, 976-981, 1049,  *)
(* 1118-1123)                                                              *)
(*                                                                         *)
(* The search loop above, with a budget over 900 ms and the balanced       *)
(* preset, MCTS_BATCH_SIZE = 4 and K_CHILD_BASE, K_CHILD_STEP set in the   *)
(* environment to values small enough for the bound to be less than the    *)
(* candidates of a position with NumMoves cells.                           *)
(***************************************************************************)

WidenTunings ==
  { [fast |-> FALSE, base |-> b, step |-> 1, max |-> K_CHILD_MAX] : b \in {0, 1} }

InitWiden ==
  /\ evaluator \in Evaluators
  /\ kChild \in WidenTunings
  /\ callNo = 1
  /\ mpc = "tactical"
  /\ now = 0
  /\ startTime = 0
  /\ tree = noNodes
  /\ pending = <<>>
  /\ batchK = 0
  /\ selections = 0
  /\ ttable = noEntries
  /\ predCache = noEntries
  /\ batchLog = [c \in Calls |-> <<>>]
  /\ lateBatch = FALSE
  /\ results = [c \in Calls |-> [bestMove |-> 0, policy |-> noEntries]]
  /\ leafEvals = noEntries
  /\ IdleNotSearch

SpecWiden == InitWiden /\ [][NextSearch]_vars

\* the candidates of expand at the node p: the possible moves with a positive
\* prior; the mask leaves the cells the network gives weight to, or all of
\* them when it gives weight to none
candidatesAt(ev, p) ==
  IF sumOver(nnPolicy(ev, p), legalAt(p)) <= 0 THEN legalAt(p)
  ELSE {m \in legalAt(p) : nnPolicy(ev, p)[m] > 0}

\* K_child_base + K_child_step * floor(sqrt(visits)), capped at K_child_max
\* and at the number of candidates
admitted(kc, nVisits, nCands) ==
  Min(kc.max, Min(nCands, kc.base + kc.step * isqrt(nVisits)))

\* C39: when a call returns, every expanded node under the root has at least
\* as many children as the bound K_child_base + K_child_step *
\* floor(sqrt(visits)), capped at K_child_max and at the number of
\* candidates, admits at the node's visit count.
C39_ChildrenGrowWithVisits ==
  mpc = "done" =>
    \A p \in DOMAIN tree :
       (p # <<>> /\ kidsOf(tree, p) # {}) =>
          Cardinality(kidsOf(tree, p)) >=
            admitted(kChild, tree[p].visits, Cardinality(candidatesAt(evaluator, p)))

\* C40: every entry of the transposition table has as its visit count the
\* number of leaf evaluations recorded for its key since the key was stored,
\* and as its value the arithmetic mean of the values of those evaluations.
C40_TableEntryIsRunningMean ==
  \A key \in DOMAIN ttable :
     /\ key \in DOMAIN leafEvals
     /\ ttable[key].visits = leafEvals[key].n
     /\ ttable[key].value * leafEvals[key].n = leafEvals[key].sum

=============================================================================
